---- MODULE Spec2Model ----
(***************************************************************************)
(* Verification model of the network monitor (src/src/*.py).               *)
(*                                                                         *)
(* Several specifications share the variables below; each one drives one   *)
(* part of the program and leaves the other variables at their initial     *)
(* values:                                                                 *)
(*   Spec      NetworkMonitor under any caller: start_monitoring,          *)
(*             stop_monitoring, perform_full_scan, the loop threads        *)
(*   SpecMain  NetworkMonitor driven by main.py run_continuous_monitoring  *)
(*             or by the dashboard's load_monitor_data                     *)
(*   SpecAlert AlertSystem.send_alert called with any alerts at any times  *)
(*   SpecGate  AlertSystem.send_alert called for events observed at or     *)
(*             before the call                                             *)
(*   SpecScan  perform_full_scan called repeatedly, taken probe by probe   *)
(*   SpecPing  PingChecker.ping_multiple_hosts on the asyncio event loop   *)
(*   SpecService  NetworkMonitor started once and stopped, with fairness   *)
(*   SpecTiming  NetworkMonitor started once, on a ten-second clock        *)
(*   SpecSummary  get_status_summary and the statistics functions, the     *)
(*             loop thread running                                         *)
(*   SpecPortScan  PortChecker.scan_host_ports over more than one batch    *)
(*   SpecRestart  NetworkMonitor started, stopped and started again        *)
(*   SpecConfig  the readers of the configured hosts and ports             *)
(*   SpecRetention  cycles hours and days apart, and the summary           *)
(*   SpecDashboard  load_monitor_data called minutes, hours, days apart    *)
(*   SpecProbe  one probe function fanned out over targets, under every    *)
(*             transport outcome                                           *)
(***************************************************************************)
EXTENDS Integers, Sequences, FiniteSets, TLC

(***************************************************************************)
(* Bounds of the model (not program constants).                            *)
(***************************************************************************)
MaxThreads == 2
MaxTime == 60
MaxScans == 2
MaxCalls == 3
MaxAlertTicks == 2
MaxHosts == 2
MaxExtraPorts == 2

(***************************************************************************)
(* Program constants.                                                      *)
(***************************************************************************)
CheckInterval == 60
Backoff == 10
RetentionSeconds == 86400
RecentSeconds == 3600
StaleAfter == 60
SecondsPerDay == 86400
CooldownPeriod == 300
PingTimeout == 5
Port443 == 443
BatchSize == 50
Port80 == 80

NoPort == 0 - 1
NoTime == 0 - 1
Caller == 0

VARIABLES
    now,               \* wall clock, seconds
    cfgHosts,          \* config["hosts"], a list of host strings
    cfgPorts,          \* config["ports"], a list of port numbers
    alertsEnabled,     \* config["alerts"]["enabled"]
    maxWorkers,        \* config["max_workers"]
    entry,             \* the entry point that drives the monitor
    monitoring_active, \* NetworkMonitor.monitoring_active
    results,           \* NetworkMonitor.results
    alert_history,     \* NetworkMonitor.alert_history (a list)
    threads,           \* loop threads created so far (1..threads)
    pc,                \* position of the caller (0) and of each loop thread
    scan_results,      \* perform_full_scan's local scan_results, per thread
    current_time,      \* check_alerts' local current_time, per thread
    alerts,            \* check_alerts' local alerts not yet processed, per thread
    filtered,          \* value of the list comprehension of check_alerts, per thread
    wake,              \* end of the thread's time.sleep
    prev,              \* the snapshot that the thread's assignment replaced
    emitted,           \* alerts the thread's current check_alerts has processed
    scans,             \* number of cycles begun so far
    tasks              \* the caller's scan_host_ports tasks, probe by probe

\* the configuration: never changes after construction
cfg == <<cfgHosts, cfgPorts, alertsEnabled, maxWorkers, entry>>

mvars == <<now, cfg, monitoring_active, results, alert_history, threads, pc,
           scan_results, current_time, alerts, filtered, wake, prev, emitted,
           scans, tasks>>

VARIABLES
    as_config,         \* AlertSystem.config and logger: the channels in use
    as_history,        \* AlertSystem.alert_history: alert key -> time
    as_now,            \* time.time()
    as_last,           \* the latest send_alert call and what it did
    as_admitted,       \* the (kind, target) pairs admitted so far
    as_calls,          \* number of send_alert calls so far
    as_ticks           \* number of clock steps so far

avars == <<as_config, as_history, as_now, as_last, as_admitted, as_calls, as_ticks>>

VARIABLES
    pg_hosts,          \* the hosts list given to ping_multiple_hosts
    pg_phase,          \* where ping_multiple_hosts is
    pg_now,            \* time.time(), in seconds
    pg_start,          \* when the tasks were created
    pg_tasks,          \* the ping_host tasks, in the order of creation
    pg_ready,          \* the event loop's queue of tasks ready to run
    pg_results         \* PingChecker.ping_results

pvars == <<pg_hosts, pg_phase, pg_now, pg_start, pg_tasks, pg_ready, pg_results>>

VARIABLES
    pr_kind,           \* which probe function a fan-out calls
    pr_env,            \* what the network does to each target of the fan-out
    pr_res             \* what the probe of each target returned, once it has

bvars == <<pr_kind, pr_env, pr_res>>

VARIABLES
    report             \* what the latest summary or statistics call has built

rvars == <<report>>

VARIABLES
    ps_phase,          \* where PortChecker.scan_host_ports is
    ps_ports,          \* number of ports in its port_range
    ps_started,        \* how many of its tasks have begun to run
    ps_done,           \* how many tasks of each batch have finished
    ps_batch,          \* the batch the loop over the batches is at
    ps_results         \* the keys of its results dict, as offsets into the range

svars == <<ps_phase, ps_ports, ps_started, ps_done, ps_batch, ps_results>>

VARIABLES
    cf_enabled,        \* what ConfigManager.get_enabled_hosts returned
    cf_checked,        \* what PortChecker.check_all_hosts_ports did
    cf_config,         \* the configuration NetworkMonitor.__init__ loaded
    cf_probed          \* the ports a full scan of that monitor probes

cvars == <<cf_enabled, cf_checked, cf_config, cf_probed>>

\* the variables of the other components
nonMonitor == <<avars, pvars, bvars, rvars, svars, cvars>>

nonAlert == <<mvars, pvars, bvars, rvars, svars, cvars>>

nonPing == <<mvars, avars, bvars, rvars, svars, cvars>>

nonProbe == <<mvars, avars, pvars, rvars, svars, cvars>>

nonReport == <<avars, pvars, bvars, svars, cvars>>

nonPortScan == <<mvars, avars, pvars, bvars, rvars, cvars>>

nonConfig == <<mvars, avars, bvars, rvars, svars>>

vars == <<mvars, avars, pvars, bvars, rvars, svars, cvars>>

\* none of the configuration functions has been called
NotCalled == [called |-> FALSE]

ConfigIdle ==
    /\ cf_enabled = NotCalled
    /\ cf_checked = NotCalled
    /\ cf_config = NotCalled
    /\ cf_probed = NotCalled

\* no summary or statistics call has been made
NoReport == [of |-> "none"]

ReportIdle == report = NoReport

\* a PortChecker whose scan_host_ports is never called
PortScanIdle ==
    /\ ps_phase = "idle"
    /\ ps_ports = 0
    /\ ps_started = 0
    /\ ps_done = <<>>
    /\ ps_batch = 0
    /\ ps_results = {}

Procs == 0..MaxThreads
LoopThreads == 1..MaxThreads

----------------------------------------------------------------------------
(***************************************************************************)
(* Data.                                                                   *)
(***************************************************************************)
EmptyMap == <<>>

\* self.results = {} : no snapshot
EmptyResults == [timestamp |-> NoTime, hosts |-> EmptyMap]

LocalHosts == {"127.0.0.1", "localhost"}

SeqToSet(s) == {s[i] : i \in 1..Len(s)}

\* a measured response time in ms
Latencies == {12}

\* what ping_host and check_port return for the status: the measured
\* response time on success, 0 on failure
ProbeResult(status) ==
    {[status |-> status, response_time |-> IF status THEN rt ELSE 0] : rt \in Latencies}

ProbeResults == UNION {ProbeResult(b) : b \in BOOLEAN}

\* every outcome scan_host_ports can return for one host: the ping result,
\* and one port entry per configured port if the host answered or is local,
\* no port entry otherwise
ScanHostPorts(host, ports) ==
    {[ping |-> pr, ports |-> pm] :
        pr \in ProbeResults,
        pm \in UNION {[D -> ProbeResults] : D \in SUBSET SeqToSet(ports)}}

HostOutcomes(host, ports) ==
    {hr \in ScanHostPorts(host, ports) :
        DOMAIN hr.ports = IF hr.ping.status \/ host \in LocalHosts
                          THEN SeqToSet(ports) ELSE {}}

\* the hosts map perform_full_scan assembles: one entry per distinct host
ScanOutcomes(hosts, ports) ==
    {m \in [SeqToSet(hosts) -> UNION {HostOutcomes(h, ports) : h \in SeqToSet(hosts)}] :
        \A h \in SeqToSet(hosts) : m[h] \in HostOutcomes(h, ports)}

PingAlert(host, t) ==
    [type |-> "ping_down", host |-> host, port |-> NoPort, timestamp |-> t]

PortAlert(host, port, t) ==
    [type |-> "port_down", host |-> host, port |-> port, timestamp |-> t]

\* the keys of a ports dict, in ascending order
RECURSIVE PortKeys(_)
PortKeys(S) ==
    IF S = {} THEN <<>>
    ELSE LET m == CHOOSE x \in S : \A y \in S : x <= y
         IN <<m>> \o PortKeys(S \ {m})

\* check_alerts, "for port, port_data in host_data['ports'].items()"
RECURSIVE PortAlerts(_, _, _, _)
PortAlerts(host, keys, pm, t) ==
    IF keys = <<>> THEN <<>>
    ELSE (IF ~pm[Head(keys)].status
          THEN <<PortAlert(host, Head(keys), t)>> ELSE <<>>)
         \o PortAlerts(host, Tail(keys), pm, t)

\* check_alerts made to report the configured service of an unreachable
\* host as down as well
HostAlerts_WithUnprobed(host, hd, t) ==
    IF ~hd.ping.status
    THEN <<PingAlert(host, t), PortAlert(host, Port80, t)>>
    ELSE PortAlerts(host, PortKeys(DOMAIN hd.ports), hd.ports, t)

\* check_alerts, the body of the loop over the hosts of the snapshot
HostAlerts(host, hd, t) ==
    (IF ~hd.ping.status THEN <<PingAlert(host, t)>> ELSE <<>>)
    \o PortAlerts(host, PortKeys(DOMAIN hd.ports), hd.ports, t)

\* the keys of a hosts dict, in the order of the hosts list
RECURSIVE HostKeys(_, _)
HostKeys(hosts, S) ==
    IF hosts = <<>> THEN <<>>
    ELSE (IF Head(hosts) \in S THEN <<Head(hosts)>> ELSE <<>>)
         \o HostKeys(Tail(hosts), S \ {Head(hosts)})

\* the alerts list check_alerts builds from a snapshot,
\* "for host, host_data in scan_results['hosts'].items()"
RECURSIVE BuildAlerts(_, _, _)
BuildAlerts(keys, hm, t) ==
    IF keys = <<>> THEN <<>>
    ELSE HostAlerts(Head(keys), hm[Head(keys)], t) \o BuildAlerts(Tail(keys), hm, t)

\* the history kept whole, whatever its age
KeepRecent_All(hist, cutoff) == hist

\* get_status_summary, "recent_alerts": the entries of the history whose
\* timestamp is later than one hour before t
RecentAlerts(hist, t) ==
    Cardinality({i \in 1..Len(hist) : hist[i].timestamp > t - RecentSeconds})

\* keep only recent alerts (last 24 hours)
RECURSIVE KeepRecent(_, _)
KeepRecent(hist, cutoff) ==
    IF hist = <<>> THEN <<>>
    ELSE (IF Head(hist).timestamp > cutoff THEN <<Head(hist)>> ELSE <<>>)
         \o KeepRecent(Tail(hist), cutoff)

----------------------------------------------------------------------------
(***************************************************************************)
(* NetworkMonitor.                                                         *)
(***************************************************************************)
\* how many cycles may begin: the callers of Spec are free, which makes its
\* state space the larger one, so its budget and its horizon are the
\* shorter ones
ScanBudget == IF entry \in {"api", "scan", "service", "timing", "summary", "restart", "retention"} THEN MaxScans ELSE MaxScans + 1

\* a scan_host_ports call that is submitted and not yet running; ping and
\* ports are its host_results as first built
QueuedTask ==
    [phase |-> "queued", ping |-> [status |-> FALSE, response_time |-> 0],
     ports |-> EmptyMap, running |-> {}]

\* one scan_host_ports task per entry of the hosts list, not yet started
NoTasks == [i \in 1..Len(cfgHosts) |-> QueuedTask]

MonitorInit ==
    /\ now = 0
    /\ alertsEnabled \in BOOLEAN
    /\ monitoring_active = FALSE
    /\ results = EmptyResults
    /\ alert_history = <<>>
    /\ threads = 0
    /\ pc = [p \in Procs |-> IF p = Caller THEN "idle" ELSE "unborn"]
    /\ scan_results = [p \in Procs |-> EmptyResults]
    /\ current_time = [p \in Procs |-> NoTime]
    /\ alerts = [p \in Procs |-> <<>>]
    /\ filtered = [p \in Procs |-> <<>>]
    /\ wake = [p \in Procs |-> NoTime]
    /\ prev = [p \in Procs |-> EmptyResults]
    /\ emitted = [p \in Procs |-> <<>>]
    /\ scans = 0
    /\ tasks = NoTasks

\* start_monitoring: sets the flag and starts a new loop thread, whatever
\* the flag was
start_monitoring ==
    /\ pc[Caller] = "idle"
    /\ threads < MaxThreads
    /\ monitoring_active' = TRUE
    /\ threads' = threads + 1
    /\ pc' = [pc EXCEPT ![threads + 1] = "top"]
    /\ UNCHANGED <<now, cfg, results, alert_history, scan_results, current_time,
                   alerts, filtered, wake, prev, emitted, scans, tasks>>
    /\ UNCHANGED nonMonitor

stop_monitoring ==
    /\ pc[Caller] = "idle"
    /\ monitoring_active' = FALSE
    /\ UNCHANGED <<now, cfg, results, alert_history, threads, pc, scan_results,
                   current_time, alerts, filtered, wake, prev, emitted, scans,
                   tasks>>
    /\ UNCHANGED nonMonitor

\* the caller calls perform_full_scan itself:
\* scan_results = {"timestamp": now, "hosts": {}}
CallScan ==
    /\ pc[Caller] = "idle"
    /\ scans < ScanBudget
    /\ scans' = scans + 1
    /\ scan_results' = [scan_results EXCEPT ![Caller] = [timestamp |-> now, hosts |-> EmptyMap]]
    /\ pc' = [pc EXCEPT ![Caller] = "probe"]
    /\ UNCHANGED <<now, cfg, monitoring_active, results, alert_history, threads,
                   current_time, alerts, filtered, wake, prev, emitted, tasks>>
    /\ UNCHANGED nonMonitor

\* monitor_loop as "while True": the flag is not looked at
LoopTop_WhileTrue(p) ==
    /\ p \in LoopThreads
    /\ pc[p] = "top"
    /\ now >= wake[p]
    /\ wake' = [wake EXCEPT ![p] = NoTime]
    /\ scans < ScanBudget
    /\ scans' = scans + 1
    /\ scan_results' = [scan_results EXCEPT ![p] = [timestamp |-> now, hosts |-> EmptyMap]]
    /\ pc' = [pc EXCEPT ![p] = "probe"]
    /\ UNCHANGED <<now, cfg, monitoring_active, results, alert_history, threads,
                   current_time, alerts, filtered, prev, emitted, tasks>>
    /\ UNCHANGED nonMonitor

\* monitor_loop: the sleep of the previous turn is over; while
\* self.monitoring_active: perform_full_scan() begins with
\* scan_results = {"timestamp": now, "hosts": {}}
LoopTop(p) ==
    /\ p \in LoopThreads
    /\ pc[p] = "top"
    /\ now >= wake[p]
    /\ wake' = [wake EXCEPT ![p] = NoTime]
    /\ IF monitoring_active
       THEN /\ scans < ScanBudget
            /\ scans' = scans + 1
            /\ scan_results' = [scan_results EXCEPT ![p] = [timestamp |-> now, hosts |-> EmptyMap]]
            /\ pc' = [pc EXCEPT ![p] = "probe"]
       ELSE /\ pc' = [pc EXCEPT ![p] = "exited"]
            /\ UNCHANGED <<scans, scan_results>>
    /\ UNCHANGED <<now, cfg, monitoring_active, results, alert_history, threads,
                   current_time, alerts, filtered, prev, emitted, tasks>>
    /\ UNCHANGED nonMonitor

\* perform_full_scan: the executor block, left when every host's
\* scan_host_ports has returned and its result is stored, and then
\* self.results = scan_results.  ThreadPoolExecutor(max_workers=len(hosts))
\* needs at least one host.
ScanPublish(p) ==
    /\ pc[p] = "probe"
    /\ Len(cfgHosts) > 0
    /\ \E hm \in ScanOutcomes(cfgHosts, cfgPorts) :
          /\ scan_results' = [scan_results EXCEPT ![p].hosts = hm]
          /\ results' = [scan_results[p] EXCEPT !.hosts = hm]
    /\ prev' = [prev EXCEPT ![p] = results]
    /\ pc' = [pc EXCEPT ![p] = "alerts"]
    /\ UNCHANGED <<now, cfg, monitoring_active, alert_history, threads,
                   current_time, alerts, filtered, wake, emitted, scans, tasks>>
    /\ UNCHANGED nonMonitor

\* perform_full_scan is over: the loop thread goes on to time.sleep(seconds),
\* the caller has its result (how = "idle") or its exception (how = "raised")
Returned(p, seconds, how) ==
    /\ IF p = Caller
       THEN /\ pc' = [pc EXCEPT ![p] = how]
            /\ wake' = wake
       ELSE /\ pc' = [pc EXCEPT ![p] = "top"]
            /\ wake' = [wake EXCEPT ![p] = now + seconds]
    /\ scan_results' = [scan_results EXCEPT ![p] = EmptyResults]
    /\ current_time' = [current_time EXCEPT ![p] = NoTime]
    /\ alerts' = [alerts EXCEPT ![p] = <<>>]
    /\ filtered' = [filtered EXCEPT ![p] = <<>>]
    /\ prev' = [prev EXCEPT ![p] = EmptyResults]
    /\ emitted' = [emitted EXCEPT ![p] = <<>>]
    /\ tasks' = IF p = Caller THEN NoTasks ELSE tasks

\* check_alerts without the test of config["alerts"]["enabled"]
CheckAlertsBuild_AlwaysOn(p) ==
    /\ pc[p] = "alerts"
    /\ current_time' = [current_time EXCEPT ![p] = now]
    /\ alerts' = [alerts EXCEPT ![p] =
            BuildAlerts(HostKeys(cfgHosts, DOMAIN scan_results[p].hosts),
                        scan_results[p].hosts, now)]
    /\ pc' = [pc EXCEPT ![p] = IF alerts'[p] = <<>> THEN "prune" ELSE "process"]
    /\ UNCHANGED <<now, cfg, monitoring_active, results, alert_history, threads,
                   scan_results, filtered, wake, prev, emitted, scans, tasks>>
    /\ UNCHANGED nonMonitor

\* check_alerts up to the end of the loop that builds the alerts list
CheckAlertsBuild(p) ==
    /\ pc[p] = "alerts"
    /\ IF alertsEnabled
       THEN /\ current_time' = [current_time EXCEPT ![p] = now]
            /\ alerts' = [alerts EXCEPT ![p] =
                    BuildAlerts(HostKeys(cfgHosts, DOMAIN scan_results[p].hosts),
                                scan_results[p].hosts, now)]
            /\ pc' = [pc EXCEPT ![p] =
                    IF alerts'[p] = <<>> THEN "prune" ELSE "process"]
            /\ UNCHANGED <<scan_results, filtered, wake, prev, emitted, tasks>>
       ELSE Returned(p, CheckInterval, "idle")
    /\ UNCHANGED <<now, cfg, monitoring_active, results, alert_history, threads,
                   scans>>
    /\ UNCHANGED nonMonitor

\* check_alerts: one turn of "for alert in alerts": process_alert and append
ProcessAlert(p) ==
    /\ pc[p] = "process"
    /\ alert_history' = Append(alert_history, Head(alerts[p]))
    /\ emitted' = [emitted EXCEPT ![p] = Append(@, Head(alerts[p]))]
    /\ alerts' = [alerts EXCEPT ![p] = Tail(@)]
    /\ pc' = [pc EXCEPT ![p] = IF Tail(alerts[p]) = <<>> THEN "prune" ELSE "process"]
    /\ UNCHANGED <<now, cfg, monitoring_active, results, threads, scan_results,
                   current_time, filtered, wake, prev, scans, tasks>>
    /\ UNCHANGED nonMonitor

\* check_alerts: the list comprehension over self.alert_history
PruneRead(p) ==
    /\ pc[p] = "prune"
    /\ filtered' = [filtered EXCEPT ![p] =
            KeepRecent(alert_history, current_time[p] - RetentionSeconds)]
    /\ pc' = [pc EXCEPT ![p] = "assign"]
    /\ UNCHANGED <<now, cfg, monitoring_active, results, alert_history, threads,
                   scan_results, current_time, alerts, wake, prev, emitted,
                   scans, tasks>>
    /\ UNCHANGED nonMonitor

\* check_alerts: self.alert_history = [...]; check_alerts and
\* perform_full_scan return
PruneAssign(p) ==
    /\ pc[p] = "assign"
    /\ alert_history' = filtered[p]
    /\ Returned(p, CheckInterval, "idle")
    /\ UNCHANGED <<now, cfg, monitoring_active, results, threads, scans>>
    /\ UNCHANGED nonMonitor

\* ScanFault with the sleep of a cycle that did not fault
ScanFault_NormalSleep(p) ==
    /\ pc[p] \in {"probe", "process"}
    /\ Returned(p, CheckInterval, "raised")
    /\ UNCHANGED <<now, cfg, monitoring_active, results, alert_history, threads,
                   scans>>
    /\ UNCHANGED nonMonitor

\* an unexpected exception inside the cycle (a worker thread cannot be
\* started, process_alert's print fails): the loop thread logs it and sleeps
\* 10 seconds, the caller gets the exception
ScanFault(p) ==
    /\ pc[p] \in {"probe", "process"}
    /\ Returned(p, Backoff, "raised")
    /\ UNCHANGED <<now, cfg, monitoring_active, results, alert_history, threads,
                   scans>>
    /\ UNCHANGED nonMonitor

\* how far the clock runs
Horizon == IF entry \in {"api", "scan", "service", "timing", "summary", "restart", "retention"} THEN MaxTime ELSE MaxTime + 2 * CheckInterval

\* time passes
Tick ==
    /\ now + CheckInterval <= Horizon
    /\ now' = now + CheckInterval
    /\ UNCHANGED <<cfg, monitoring_active, results, alert_history, threads, pc,
                   scan_results, current_time, alerts, filtered, wake, prev,
                   emitted, scans, tasks>>
    /\ UNCHANGED nonMonitor

\* the steps of check_alerts
AlertStep(p) ==
    \/ CheckAlertsBuild(p)
    \/ ProcessAlert(p)
    \/ PruneRead(p)
    \/ PruneAssign(p)

----------------------------------------------------------------------------
(***************************************************************************)
(* The probe functions, each as a function of what the network does to     *)
(* its target.  A probe's result is [success, response_time]; a missing    *)
(* response time (Python's None) is None below.  Every probe body is       *)
(* inside try/except Exception, so what a primitive raises becomes the     *)
(* handler's return value.                                                 *)
(***************************************************************************)
None == 0 - 1

TransportOutcomes ==
    {"answered", "timeout", "refused", "dns_failure", "subprocess_error"}

ProbeKinds ==
    {"monitor_ping", "monitor_port", "async_ping", "tcp_port", "udp_port"}

Success == {[success |-> TRUE, response_time |-> rt] : rt \in Latencies}

\* NetworkMonitor.ping_host: subprocess.run of the ping command; success is
\* returncode == 0, and a timeout or any exception gives (False, 0)
MonitorPingHost(o) ==
    IF o = "answered" THEN Success
    ELSE {[success |-> FALSE, response_time |-> 0]}

\* NetworkMonitor.check_port: connect_ex returns 0 or an error number, and
\* raises for a name that does not resolve; failure is (False, 0)
MonitorCheckPort(o) ==
    IF o = "answered" THEN Success
    ELSE {[success |-> FALSE, response_time |-> 0]}

\* what ping3's ping() gives back: the delay, None when no reply came in
\* time, False when it met an error (unknown host, destination
\* unreachable), or an exception from the socket layer
Ping3(o) ==
    CASE o = "answered" -> {"delay"}
      [] o = "timeout" -> {"None"}
      [] o = "refused" -> {"None", "False"}
      [] o = "dns_failure" -> {"False"}
      [] o = "subprocess_error" -> {"raise"}

\* PingChecker._subprocess_ping: returncode 0 gives (True, elapsed), any
\* other return code, TimeoutError or exception gives (False, None)
SubprocessPing(o) ==
    IF o = "answered" THEN Success
    ELSE {[success |-> FALSE, response_time |-> None]}

\* PingChecker.ping_host: "if response_time is not None" returns
\* (True, response_time), and False is not None (as a number False is 0);
\* None falls back to _subprocess_ping; an exception gives (False, None)
AsyncPingHost(o) ==
    UNION {CASE r = "delay" -> Success
             [] r = "False" -> {[success |-> TRUE, response_time |-> 0]}
             [] r = "None" -> SubprocessPing(o)
             [] r = "raise" -> {[success |-> FALSE, response_time |-> None]}
           : r \in Ping3(o)}

\* PortChecker.check_tcp_port: connect inside wait_for; every exception
\* gives (False, None)
CheckTcpPort(o) ==
    IF o = "answered" THEN Success
    ELSE {[success |-> FALSE, response_time |-> None]}

\* check_udp_port, sock.sendto inside wait_for(timeout): the datagram is
\* sent, sendto raises (a name that does not resolve), or the wait ends first
UdpSend(o) ==
    CASE o \in {"answered", "timeout", "refused"} -> {"sent"}
      [] o = "dns_failure" -> {"raise", "late"}
      [] o = "subprocess_error" -> {"raise"}

\* check_udp_port, sock.recv inside wait_for(timeout=1): a reply, no reply
\* during the wait (asyncio.TimeoutError), or recv raises (the port is
\* reported unreachable)
UdpRecv(o) ==
    CASE o = "answered" -> "reply"
      [] o = "timeout" -> "silence"
      [] OTHER -> "raise"

\* check_udp_port with the except clause for no reply taken out, so that the
\* outer handler gets asyncio.TimeoutError
CheckUdpPort_ReplyRequired(o) ==
    IF o = "answered" THEN Success
    ELSE {[success |-> FALSE, response_time |-> None]}

\* PortChecker.check_udp_port: a datagram that is sent gives success with a
\* response time, whether a reply comes or the wait for it runs out; every
\* other exception, of sendto or of recv, gives (False, None)
CheckUdpPort(o) ==
    UNION {IF sent = "sent" /\ UdpRecv(o) \in {"reply", "silence"}
           THEN Success
           ELSE {[success |-> FALSE, response_time |-> None]}
          : sent \in UdpSend(o)}

Probe(kind, o) ==
    CASE kind = "monitor_ping" -> MonitorPingHost(o)
      [] kind = "monitor_port" -> MonitorCheckPort(o)
      [] kind = "async_ping" -> AsyncPingHost(o)
      [] kind = "tcp_port" -> CheckTcpPort(o)
      [] kind = "udp_port" -> CheckUdpPort(o)

\* whether the probe's socket is still open when the probe returns.
\* NetworkMonitor.check_port calls sock.close() after connect_ex returns,
\* and not in its except branch, which connect_ex reaches by raising for a
\* name that does not resolve: the socket is then open until the
\* interpreter finalises the object, before or after the return.
\* check_tcp_port and check_udp_port call sock.close() before every return;
\* the ping functions open no socket of their own.
SocketLeftOpen(kind, o) ==
    IF kind = "monitor_port" /\ o = "dns_failure" THEN BOOLEAN ELSE {FALSE}

\* the probe of a target has not returned yet
Pending == [success |-> FALSE, response_time |-> None, done |-> FALSE,
            open |-> FALSE]

\* no fan-out of probes is under way
ProbeIdle ==
    /\ pr_kind = "none"
    /\ pr_env = <<>>
    /\ pr_res = <<>>

\* the fan-out's probe of the i-th target returns
ProbeReturns(i) ==
    /\ ~pr_res[i].done
    /\ \E r \in Probe(pr_kind, pr_env[i]) :
       \E open \in SocketLeftOpen(pr_kind, pr_env[i]) :
          pr_res' = [pr_res EXCEPT ![i] =
                [success |-> r.success, response_time |-> r.response_time,
                 done |-> TRUE, open |-> open]]
    /\ UNCHANGED <<pr_kind, pr_env>>
    /\ UNCHANGED nonProbe

ProbeNext == \E i \in 1..Len(pr_env) : ProbeReturns(i)

----------------------------------------------------------------------------
(***************************************************************************)
(* PingChecker (ping_checker.py): ping_multiple_hosts on an asyncio event  *)
(* loop.  The loop runs one task at a time, in the order the tasks became  *)
(* ready; a task gives the loop back only at an await that has to wait.    *)
(* ping3's ping() is an ordinary call: the loop stands still while it      *)
(* runs.  Time is in whole seconds.                                        *)
(***************************************************************************)
\* the addresses that never answer
Hanging == {"x"}

\* how long a reachable address takes to answer, in seconds
PingSeconds == {0, 1}

\* host entries of the configuration: two reachable or not, one disabled,
\* one with the name of another and an address of its own
PingHosts ==
    {[name |-> "a", address |-> "a", enabled |-> TRUE],
     [name |-> "x", address |-> "x", enabled |-> TRUE],
     [name |-> "d", address |-> "a", enabled |-> FALSE],
     [name |-> "a", address |-> "x", enabled |-> TRUE]}


\* a PingChecker whose ping_multiple_hosts is never called
PingIdle ==
    /\ pg_hosts = <<>>
    /\ pg_phase = "idle"
    /\ pg_now = 0
    /\ pg_start = None
    /\ pg_tasks = <<>>
    /\ pg_ready = <<>>
    /\ pg_results = EmptyMap

\* host.get('enabled', True)
HostEnabled(host) == IF "enabled" \in DOMAIN host THEN host.enabled ELSE TRUE

\* the loop over the hosts with the test of the enabled flag taken out
RECURSIVE EnabledHosts_All(_)
EnabledHosts_All(hosts) ==
    IF hosts = <<>> THEN <<>>
    ELSE <<Head(hosts)>> \o EnabledHosts_All(Tail(hosts))

\* "for host in hosts: if host.get('enabled', True)"
RECURSIVE EnabledHosts(_)
EnabledHosts(hosts) ==
    IF hosts = <<>> THEN <<>>
    ELSE (IF HostEnabled(Head(hosts)) THEN <<Head(hosts)>> ELSE <<>>)
         \o EnabledHosts(Tail(hosts))

\* the keys of host_info, in the order of their first insertion
RECURSIVE InfoKeys(_, _)
InfoKeys(hosts, seen) ==
    IF hosts = <<>> THEN <<>>
    ELSE (IF Head(hosts).name \in seen THEN <<>> ELSE <<Head(hosts).name>>)
         \o InfoKeys(Tail(hosts), seen \cup {Head(hosts).name})

\* host_info[name]['address']: the last host of that name wins
RECURSIVE InfoAddress(_, _)
InfoAddress(hosts, name) ==
    IF hosts[Len(hosts)].name = name THEN hosts[Len(hosts)].address
    ELSE InfoAddress(SubSeq(hosts, 1, Len(hosts) - 1), name)

\* host_info[name]['task']: the task made for the last host of that name,
\* as its position in tasks
InfoTask(hosts, name) ==
    CHOOSE i \in 1..Len(hosts) :
        /\ hosts[i].name = name
        /\ \A j \in (i + 1)..Len(hosts) : hosts[j].name # name

\* a ping_host task that asyncio.create_task has just made
NewTask(host) ==
    [address |-> host.address, state |-> "ready", wake |-> None,
     success |-> FALSE, response_time |-> None, done_at |-> None]

\* ping_multiple_hosts up to "await asyncio.gather(*tasks)": one task per
\* enabled host
PingMultipleHosts ==
    /\ pg_phase = "call"
    /\ pg_tasks' = [i \in 1..Len(EnabledHosts(pg_hosts)) |->
                       NewTask(EnabledHosts(pg_hosts)[i])]
    /\ pg_ready' = [i \in 1..Len(EnabledHosts(pg_hosts)) |-> i]
    /\ pg_start' = pg_now
    /\ pg_phase' = "gather"
    /\ UNCHANGED <<pg_hosts, pg_now, pg_results>>
    /\ UNCHANGED nonPing

\* ping_host for a reachable address: ping() returns the response time, and
\* the task is finished with (True, response_time)
PingAnswered ==
    /\ pg_phase = "gather"
    /\ pg_ready # <<>>
    /\ pg_tasks[Head(pg_ready)].address \notin Hanging
    /\ \E d \in PingSeconds :
          /\ pg_now' = pg_now + d
          /\ pg_tasks' = [pg_tasks EXCEPT ![Head(pg_ready)] =
                [@ EXCEPT !.state = "done", !.success = TRUE,
                          !.response_time = d, !.done_at = pg_now + d]]
    /\ pg_ready' = Tail(pg_ready)
    /\ UNCHANGED <<pg_hosts, pg_phase, pg_start, pg_results>>
    /\ UNCHANGED nonPing

\* ping_host for an address that never answers: ping() returns None after
\* the timeout; _subprocess_ping starts the ping command and waits for it,
\* which ends when the command gives up (-W timeout) or, at the latest, when
\* wait_for does (timeout + 1)
PingUnanswered ==
    /\ pg_phase = "gather"
    /\ pg_ready # <<>>
    /\ pg_tasks[Head(pg_ready)].address \in Hanging
    /\ pg_now' = pg_now + PingTimeout
    /\ \E w \in {PingTimeout, PingTimeout + 1} :
          pg_tasks' = [pg_tasks EXCEPT ![Head(pg_ready)] =
                [@ EXCEPT !.state = "waiting", !.wake = pg_now + PingTimeout + w]]
    /\ pg_ready' = Tail(pg_ready)
    /\ UNCHANGED <<pg_hosts, pg_phase, pg_start, pg_results>>
    /\ UNCHANGED nonPing

\* _subprocess_ping: the wait is over (the command failed or wait_for timed
\* out); the task is finished with (False, None).  The loop gets to it when
\* its time has come, or sleeps until then when no task is ready.
SubprocessPingDone(i) ==
    /\ pg_phase = "gather"
    /\ pg_tasks[i].state = "waiting"
    /\ pg_ready = <<>> \/ pg_now >= pg_tasks[i].wake
    /\ \A j \in 1..Len(pg_tasks) :
          pg_tasks[j].state = "waiting" => pg_tasks[i].wake <= pg_tasks[j].wake
    /\ pg_now' = IF pg_now >= pg_tasks[i].wake THEN pg_now ELSE pg_tasks[i].wake
    /\ pg_tasks' = [pg_tasks EXCEPT ![i] =
            [@ EXCEPT !.state = "done", !.success = FALSE,
                      !.response_time = None, !.done_at = pg_now']]
    /\ UNCHANGED <<pg_hosts, pg_phase, pg_start, pg_ready, pg_results>>
    /\ UNCHANGED nonPing

\* the position of a key among the keys of host_info
KeyIndex(keys, name) == CHOOSE k \in 1..Len(keys) : keys[k] = name

\* ping_multiple_hosts after gather: the i-th key of host_info gets results[i]
PingResults(hosts, res) ==
    LET keys == InfoKeys(hosts, {})
    IN [name \in {keys[k] : k \in 1..Len(keys)} |->
           [address |-> InfoAddress(hosts, name),
            success |-> res[KeyIndex(keys, name)].success,
            response_time |-> res[KeyIndex(keys, name)].response_time]]

\* ping_multiple_hosts: gather returns when every task is finished;
\* self.ping_results = ping_results
PingGather ==
    /\ pg_phase = "gather"
    /\ \A i \in 1..Len(pg_tasks) : pg_tasks[i].state = "done"
    /\ pg_results' = PingResults(EnabledHosts(pg_hosts), pg_tasks)
    /\ pg_phase' = "done"
    /\ UNCHANGED <<pg_hosts, pg_now, pg_start, pg_tasks, pg_ready>>
    /\ UNCHANGED nonPing

PingNext ==
    \/ PingMultipleHosts
    \/ PingAnswered
    \/ PingUnanswered
    \/ \E i \in 1..Len(pg_tasks) : SubprocessPingDone(i)
    \/ PingGather

\* every hosts list of up to MaxHosts hosts
HostLists == UNION {[1..n -> PingHosts] : n \in 0..MaxHosts}

----------------------------------------------------------------------------
(***************************************************************************)
(* AlertSystem (alert_system.py).  Strings are sequences of tokens: the    *)
(* service and host names are spelled character by character, an alert     *)
(* type and a formatted port are one token each (no alert type is a        *)
(* prefix of another and a formatted port holds no "_", so two keys are    *)
(* equal as token sequences exactly when they are equal as strings).       *)
(***************************************************************************)
AlertTypes == {"service_down", "service_up"}

AlertTargets ==
    {[service_name |-> <<"w", "_", "a">>, host |-> <<"h">>, port |-> Port80],
     [service_name |-> <<"w">>, host |-> <<"a", "_", "h">>, port |-> Port80],
     [service_name |-> <<"w">>, host |-> <<"h">>, port |-> NoPort]}

\* a send_alert call: the alert kind and the target
AlertCalls ==
    {[alert_type |-> ty, service_name |-> tg.service_name, host |-> tg.host,
      port |-> tg.port] : ty \in AlertTypes, tg \in AlertTargets}

NoCall == [alert_type |-> "", service_name |-> <<>>, host |-> <<>>, port |-> NoPort]

\* str(port) in the f-string: None for a missing port
PortStr(port) == IF port = NoPort THEN "None" ELSE ToString(port)

\* alert_key = f"{alert_type}_{service_name}_{host}_{port}"
AlertKey(c) ==
    <<c.alert_type, "_">> \o c.service_name \o <<"_">> \o c.host
        \o <<"_", PortStr(c.port)>>

\* the comparison of _is_in_cooldown turned round
IsInCooldown_Inverted(alert_key, t) ==
    IF alert_key \in DOMAIN as_history
    THEN t - as_history[alert_key] > CooldownPeriod
    ELSE FALSE

\* the window of _is_in_cooldown closed at its end: the 300th second included
IsInCooldown_Inclusive(alert_key, t) ==
    IF alert_key \in DOMAIN as_history
    THEN t - as_history[alert_key] <= CooldownPeriod
    ELSE FALSE

\* _is_in_cooldown
IsInCooldown(alert_key, t) ==
    IF alert_key \in DOMAIN as_history
    THEN t - as_history[alert_key] < CooldownPeriod
    ELSE FALSE

\* the channels an admitted alert goes to: console, email, the logger
Channels == {"console", "email", "log"}

\* an AlertSystem that is constructed and never called
AlertIdle ==
    /\ as_config = {"console"}
    /\ as_history = <<>>
    /\ as_now = 0
    /\ as_last = [call |-> NoCall, at |-> NoTime, observed |-> NoTime,
                  admitted |-> FALSE, out |-> {}]
    /\ as_admitted = {}
    /\ as_calls = 0
    /\ as_ticks = 0

\* the times at which the event handed to a call can have been observed: the
\* call has no parameter for it, the snapshot was taken at or before the call
ObservedTimes(t) == IF t > 0 THEN {t - 1, t} ELSE {t}

\* send_alert, called for an event that was observed at obs
send_alert(c, obs) ==
    /\ as_calls < MaxCalls
    /\ as_calls' = as_calls + 1
    /\ IF IsInCooldown(AlertKey(c), as_now)
       THEN /\ as_last' = [call |-> c, at |-> as_now, observed |-> obs,
                           admitted |-> FALSE, out |-> {}]
            /\ UNCHANGED <<as_history, as_admitted>>
       ELSE /\ as_history' = [k \in DOMAIN as_history \cup {AlertKey(c)} |->
                                 IF k = AlertKey(c) THEN as_now ELSE as_history[k]]
            /\ as_last' = [call |-> c, at |-> as_now, observed |-> obs,
                           admitted |-> TRUE, out |-> as_config]
            /\ as_admitted' = as_admitted \cup {c}
    /\ UNCHANGED <<as_config, as_now, as_ticks>>
    /\ UNCHANGED nonAlert

\* time passes between two calls
AlertTick ==
    /\ as_ticks < MaxAlertTicks
    /\ as_ticks' = as_ticks + 1
    /\ \E d \in {CooldownPeriod - 1, CooldownPeriod, CooldownPeriod + 1} :
          as_now' = as_now + d
    /\ UNCHANGED <<as_config, as_history, as_last, as_admitted, as_calls>>
    /\ UNCHANGED nonAlert

\* every call is made for an event observed at the moment of the call
AlertNext ==
    \/ \E c \in AlertCalls : send_alert(c, as_now)
    \/ AlertTick

\* a fresh AlertSystem with the default or with every channel; the
\* NetworkMonitor is constructed and never started
AlertInit ==
    /\ cfgHosts = <<>>
    /\ cfgPorts = <<>>
    /\ maxWorkers = 1
    /\ entry = "none"
    /\ alertsEnabled = FALSE
    /\ MonitorInit
    /\ ReportIdle
    /\ ConfigIdle
    /\ PortScanIdle
    /\ as_config \in {{"console"}, Channels}
    /\ as_history = <<>>
    /\ as_now = 0
    /\ as_last = [call |-> NoCall, at |-> NoTime, observed |-> NoTime,
                  admitted |-> FALSE, out |-> {}]
    /\ as_admitted = {}
    /\ as_calls = 0
    /\ as_ticks = 0
    /\ PingIdle
    /\ ProbeIdle

SpecAlert == AlertInit /\ [][AlertNext]_vars

\* the calls are made for events observed at or before the call
GateNext ==
    \/ \E c \in AlertCalls : \E obs \in ObservedTimes(as_now) : send_alert(c, obs)
    \/ AlertTick

\* an AlertSystem with every channel, the other components left alone
GateInit ==
    /\ cfgHosts = <<>>
    /\ cfgPorts = <<>>
    /\ maxWorkers = 1
    /\ entry = "none"
    /\ alertsEnabled = FALSE
    /\ MonitorInit
    /\ ReportIdle
    /\ ConfigIdle
    /\ PortScanIdle
    /\ as_config = Channels
    /\ as_history = <<>>
    /\ as_now = 0
    /\ as_last = [call |-> NoCall, at |-> NoTime, observed |-> NoTime,
                  admitted |-> FALSE, out |-> {}]
    /\ as_admitted = {}
    /\ as_calls = 0
    /\ as_ticks = 0
    /\ PingIdle
    /\ ProbeIdle

SpecGate == GateInit /\ [][GateNext]_vars

\* ping_multiple_hosts is called once, on any of the hosts lists; the other
\* components are constructed and left alone
PingInit ==
    /\ cfgHosts = <<>>
    /\ cfgPorts = <<>>
    /\ maxWorkers = 1
    /\ entry = "none"
    /\ alertsEnabled = FALSE
    /\ MonitorInit
    /\ ReportIdle
    /\ ConfigIdle
    /\ PortScanIdle
    /\ AlertIdle
    /\ pg_hosts \in HostLists
    /\ pg_phase = "call"
    /\ pg_now = 0
    /\ pg_start = None
    /\ pg_tasks = <<>>
    /\ pg_ready = <<>>
    /\ pg_results = EmptyMap
    /\ ProbeIdle

SpecPing == PingInit /\ [][PingNext]_vars

\* a fan-out of one probe function over up to MaxHosts targets, the network
\* doing any of the transport outcomes to each; the other components are
\* constructed and left alone
ProbeInit ==
    /\ cfgHosts = <<>>
    /\ cfgPorts = <<>>
    /\ maxWorkers = 1
    /\ entry = "none"
    /\ alertsEnabled = FALSE
    /\ MonitorInit
    /\ ReportIdle
    /\ ConfigIdle
    /\ PortScanIdle
    /\ AlertIdle
    /\ PingIdle
    /\ pr_kind \in ProbeKinds
    /\ pr_env \in UNION {[1..n -> TransportOutcomes] : n \in 0..MaxHosts}
    /\ pr_res = [i \in 1..Len(pr_env) |-> Pending]

SpecProbe == ProbeInit /\ [][ProbeNext]_vars

----------------------------------------------------------------------------
(***************************************************************************)
(* SpecScan: perform_full_scan called again and again by one caller, with  *)
(* the executor block of perform_full_scan and of scan_host_ports taken    *)
(* probe by probe.  tasks[i] is the scan_host_ports call for the i-th      *)
(* entry of the hosts list.                                                *)
(***************************************************************************)
HostIndices == 1..Len(cfgHosts)

\* the scan_host_ports calls a worker thread of the outer pool is running
RunningHosts == {i \in HostIndices : tasks[i].phase \in {"ping", "ports"}}

\* the ports of task i that are submitted and neither running nor done
PendingPorts(i) == SeqToSet(cfgPorts) \ (DOMAIN tasks[i].ports \cup tasks[i].running)

\* dict assignment d[k] = v
Put(d, k, v) == [x \in DOMAIN d \cup {k} |-> IF x = k THEN v ELSE d[x]]

\* perform_full_scan, executor.submit(self.scan_host_ports, host, ...): a
\* worker of the pool of len(hosts) threads takes the call; ping_host begins
ScanStartHost(i) ==
    /\ pc[Caller] = "probe"
    /\ tasks[i].phase = "queued"
    /\ Cardinality(RunningHosts) < Len(cfgHosts)
    /\ tasks' = [tasks EXCEPT ![i].phase = "ping"]
    /\ UNCHANGED <<now, cfg, monitoring_active, results, alert_history, threads,
                   pc, scan_results, current_time, alerts, filtered, wake,
                   prev, emitted, scans>>
    /\ UNCHANGED nonMonitor

\* scan_host_ports with the test of ping_status taken out: the ports are
\* submitted whatever ping_host returned
ScanPingDone_Ungated(i) ==
    /\ pc[Caller] = "probe"
    /\ tasks[i].phase = "ping"
    /\ \E r \in ProbeResults :
          tasks' = [tasks EXCEPT ![i].ping = r,
                                 ![i].phase =
                                    IF cfgPorts # <<>> THEN "ports" ELSE "returned"]
    /\ UNCHANGED <<now, cfg, monitoring_active, results, alert_history, threads,
                   pc, scan_results, current_time, alerts, filtered, wake,
                   prev, emitted, scans>>
    /\ UNCHANGED nonMonitor

\* scan_host_ports: ping_host returns; the ports are submitted to the
\* host's own pool if the host answered or is local, else the call returns
ScanPingDone(i) ==
    /\ pc[Caller] = "probe"
    /\ tasks[i].phase = "ping"
    /\ \E r \in ProbeResults :
          tasks' = [tasks EXCEPT ![i].ping = r,
                                 ![i].phase =
                                    IF (r.status \/ cfgHosts[i] \in LocalHosts)
                                       /\ cfgPorts # <<>>
                                    THEN "ports" ELSE "returned"]
    /\ UNCHANGED <<now, cfg, monitoring_active, results, alert_history, threads,
                   pc, scan_results, current_time, alerts, filtered, wake,
                   prev, emitted, scans>>
    /\ UNCHANGED nonMonitor

\* scan_host_ports: a worker of the pool of max_workers threads takes a
\* check_port call
ScanStartPort(i) ==
    /\ pc[Caller] = "probe"
    /\ tasks[i].phase = "ports"
    /\ Cardinality(tasks[i].running) < maxWorkers
    /\ \E port \in PendingPorts(i) :
          tasks' = [tasks EXCEPT ![i].running = @ \cup {port}]
    /\ UNCHANGED <<now, cfg, monitoring_active, results, alert_history, threads,
                   pc, scan_results, current_time, alerts, filtered, wake,
                   prev, emitted, scans>>
    /\ UNCHANGED nonMonitor

\* scan_host_ports: a check_port call returns and as_completed stores its
\* result; after the last one the call returns host_results
ScanPortDone(i) ==
    /\ pc[Caller] = "probe"
    /\ tasks[i].phase = "ports"
    /\ \E port \in tasks[i].running, r \in ProbeResults :
          tasks' = [tasks EXCEPT ![i].running = @ \ {port},
                                 ![i].ports = Put(@, port, r),
                                 ![i].phase =
                                    IF PendingPorts(i) = {} /\ tasks[i].running = {port}
                                    THEN "returned" ELSE "ports"]
    /\ UNCHANGED <<now, cfg, monitoring_active, results, alert_history, threads,
                   pc, scan_results, current_time, alerts, filtered, wake,
                   prev, emitted, scans>>
    /\ UNCHANGED nonMonitor

\* perform_full_scan, as_completed: scan_results["hosts"][host] = host_result
ScanStoreHost(i) ==
    /\ pc[Caller] = "probe"
    /\ tasks[i].phase = "returned"
    /\ tasks' = [tasks EXCEPT ![i].phase = "stored"]
    /\ scan_results' = [scan_results EXCEPT ![Caller].hosts =
            Put(@, cfgHosts[i], [ping |-> tasks[i].ping, ports |-> tasks[i].ports])]
    /\ UNCHANGED <<now, cfg, monitoring_active, results, alert_history, threads,
                   pc, current_time, alerts, filtered, wake, prev, emitted, scans>>
    /\ UNCHANGED nonMonitor

\* FinishScan with the assignment moved into the as_completed loop
FinishScan_Early ==
    /\ pc[Caller] = "probe"
    /\ \E i \in HostIndices : tasks[i].phase = "stored"
    /\ results' = scan_results[Caller]
    /\ prev' = [prev EXCEPT ![Caller] = results]
    /\ pc' = [pc EXCEPT ![Caller] = "alerts"]
    /\ UNCHANGED <<now, cfg, monitoring_active, alert_history, threads,
                   scan_results, current_time, alerts, filtered, wake, emitted,
                   scans, tasks>>
    /\ UNCHANGED nonMonitor

\* perform_full_scan with an empty hosts list:
\* ThreadPoolExecutor(max_workers=0) raises ValueError
ExecutorRejects ==
    /\ pc[Caller] = "probe"
    /\ Len(cfgHosts) = 0
    /\ Returned(Caller, Backoff, "raised")
    /\ UNCHANGED <<now, cfg, monitoring_active, results, alert_history, threads,
                   scans>>
    /\ UNCHANGED nonMonitor

\* perform_full_scan: the executor block is left when every result is
\* stored; self.results = scan_results
FinishScan ==
    /\ pc[Caller] = "probe"
    /\ Len(cfgHosts) > 0
    /\ \A i \in HostIndices : tasks[i].phase = "stored"
    /\ results' = scan_results[Caller]
    /\ prev' = [prev EXCEPT ![Caller] = results]
    /\ pc' = [pc EXCEPT ![Caller] = "alerts"]
    /\ UNCHANGED <<now, cfg, monitoring_active, alert_history, threads,
                   scan_results, current_time, alerts, filtered, wake, emitted,
                   scans, tasks>>
    /\ UNCHANGED nonMonitor

\* the caller calls perform_full_scan
ScanCall ==
    /\ entry = "scan"
    /\ CallScan

ScanNext ==
    \/ ScanCall
    \/ \E i \in HostIndices : ScanStartHost(i)
    \/ \E i \in HostIndices : ScanPingDone(i)
    \/ \E i \in HostIndices : ScanStartPort(i)
    \/ \E i \in HostIndices : ScanPortDone(i)
    \/ \E i \in HostIndices : ScanStoreHost(i)
    \/ FinishScan
    \/ ExecutorRejects
    \/ AlertStep(Caller)
    \/ ScanFault(Caller)
    \/ Tick

ScanInit ==
    /\ cfgHosts \in {<<>>, <<"h1", "h2">>, <<"127.0.0.1", "h1">>, <<"h1", "h1">>}
    /\ cfgPorts = <<Port80>>
    /\ maxWorkers \in {1, 2}
    /\ entry = "scan"
    /\ alertsEnabled = TRUE
    /\ MonitorInit
    /\ ReportIdle
    /\ ConfigIdle
    /\ PortScanIdle
    /\ AlertIdle
    /\ PingIdle
    /\ ProbeIdle

SpecScan == ScanInit /\ [][ScanNext]_vars

----------------------------------------------------------------------------
(***************************************************************************)
(* Spec: a NetworkMonitor whose start_monitoring and stop_monitoring are   *)
(* called in any order, and its loop threads.                              *)
(***************************************************************************)
Next ==
    \/ start_monitoring
    \/ stop_monitoring
    \/ Tick
    \/ \E p \in LoopThreads : LoopTop(p) \/ ScanPublish(p) \/ AlertStep(p) \/ ScanFault(p)

Init ==
    /\ cfgHosts = <<"h1">>
    /\ cfgPorts = <<Port80>>
    /\ maxWorkers = 1
    /\ entry = "api"
    /\ MonitorInit
    /\ ReportIdle
    /\ ConfigIdle
    /\ PortScanIdle
    /\ AlertIdle
    /\ PingIdle
    /\ ProbeIdle

Spec == Init /\ [][Next]_vars

----------------------------------------------------------------------------
(***************************************************************************)
(* SpecMain: a NetworkMonitor driven by one of the entry points:           *)
(* main.py's run_continuous_monitoring ("monitor") or dashboard.py's       *)
(* load_monitor_data ("dashboard").                                        *)
(***************************************************************************)
\* run_continuous_monitoring: monitor.perform_full_scan(), the initial scan
MainInitialScan ==
    /\ entry = "monitor"
    /\ scans = 0
    /\ threads = 0
    /\ CallScan

\* start_monitoring called again while the loop runs
MainStart_Again ==
    /\ entry = "monitor"
    /\ scans >= 1
    /\ start_monitoring

\* run_continuous_monitoring: monitor.start_monitoring(), once the initial
\* scan has returned
MainStart ==
    /\ entry = "monitor"
    /\ scans >= 1
    /\ threads = 0
    /\ start_monitoring

\* run_continuous_monitoring: KeyboardInterrupt in the wait loop,
\* monitor.stop_monitoring()
MainStop ==
    /\ entry = "monitor"
    /\ threads = 1
    /\ monitoring_active
    /\ stop_monitoring

\* timedelta.seconds: the seconds field of a normalized timedelta
TimedeltaSeconds(d) == d % SecondsPerDay

\* load_monitor_data, the function body (st.cache_data holds no result of
\* an earlier call): scan if there is no snapshot or it is not recent
DashLoad ==
    /\ entry = "dashboard"
    /\ \/ results = EmptyResults
       \/ TimedeltaSeconds(now - results.timestamp) > StaleAfter
    /\ CallScan

\* load_monitor_data: the snapshot counts as recent and the monitor is
\* returned with it, without a scan
DashServe ==
    /\ entry = "dashboard"
    /\ pc[Caller] = "idle"
    /\ results # EmptyResults
    /\ ~(TimedeltaSeconds(now - results.timestamp) > StaleAfter)
    /\ report' = [of |-> "load_monitor_data", at |-> now,
                  snapshot |-> results.timestamp]
    /\ UNCHANGED mvars
    /\ UNCHANGED nonReport

\* load_monitor_data: except Exception: st.error(...); return None
DashCatch ==
    /\ entry = "dashboard"
    /\ pc[Caller] = "raised"
    /\ pc' = [pc EXCEPT ![Caller] = "idle"]
    /\ UNCHANGED <<now, cfg, monitoring_active, results, alert_history, threads,
                   scan_results, current_time, alerts, filtered, wake, prev,
                   emitted, scans, tasks>>
    /\ UNCHANGED nonMonitor

MainNext ==
    \/ MainInitialScan
    \/ MainStart
    \/ MainStop
    \/ DashLoad
    \/ DashCatch
    \/ Tick
    \/ \E p \in Procs : LoopTop(p) \/ ScanPublish(p) \/ AlertStep(p) \/ ScanFault(p)

MainInit ==
    /\ cfgHosts = <<"h1">>
    /\ cfgPorts = <<Port80>>
    /\ maxWorkers = 1
    /\ entry \in {"monitor", "dashboard"}
    /\ MonitorInit
    /\ ReportIdle
    /\ ConfigIdle
    /\ PortScanIdle
    /\ AlertIdle
    /\ PingIdle
    /\ ProbeIdle

SpecMain == MainInit /\ [][MainNext]_vars

----------------------------------------------------------------------------
(***************************************************************************)
(* SpecService: a NetworkMonitor whose loop is started once and then       *)
(* stopped, with cycles that do not fault.  The threads get to run and     *)
(* time goes on, so that what the loop does in the end can be stated.      *)
(***************************************************************************)
\* the only start_monitoring call
ServiceStart ==
    /\ entry = "service"
    /\ threads = 0
    /\ start_monitoring

\* stop_monitoring, called once the loop is started (and again at will)
ServiceStop ==
    /\ entry = "service"
    /\ threads = 1
    /\ stop_monitoring

\* a loop thread is in time.sleep
Sleeping(p) == pc[p] = "top" /\ wake[p] # NoTime /\ now < wake[p]

\* time passes; past the horizon only as long as a loop thread sleeps
ServiceTick ==
    /\ now + CheckInterval <= Horizon \/ \E p \in LoopThreads : Sleeping(p)
    /\ now' = now + CheckInterval
    /\ UNCHANGED <<cfg, monitoring_active, results, alert_history, threads, pc,
                   scan_results, current_time, alerts, filtered, wake, prev,
                   emitted, scans, tasks>>
    /\ UNCHANGED nonMonitor

\* the steps of a loop thread
LoopStep(p) == LoopTop(p) \/ ScanPublish(p) \/ AlertStep(p)

ServiceNext ==
    \/ ServiceStart
    \/ ServiceStop
    \/ ServiceTick
    \/ \E p \in LoopThreads : LoopTop(p) \/ ScanPublish(p) \/ AlertStep(p)

ServiceInit ==
    /\ cfgHosts \in {<<"h1">>, <<"h1", "h2">>}
    /\ cfgPorts = <<Port80>>
    /\ maxWorkers = 1
    /\ entry = "service"
    /\ MonitorInit
    /\ ReportIdle
    /\ ConfigIdle
    /\ PortScanIdle
    /\ AlertIdle
    /\ PingIdle
    /\ ProbeIdle

SpecService ==
    /\ ServiceInit
    /\ [][ServiceNext]_vars
    /\ WF_vars(ServiceTick)
    /\ \A p \in LoopThreads : WF_vars(LoopStep(p))

----------------------------------------------------------------------------
(***************************************************************************)
(* SpecTiming: a NetworkMonitor whose loop is started once, on a clock     *)
(* fine enough for a cycle to take less than check_interval.               *)
(***************************************************************************)
\* the only start_monitoring call
TimingStart ==
    /\ entry = "timing"
    /\ threads = 0
    /\ start_monitoring

\* time passes, ten seconds at a time
FineTick ==
    /\ entry = "timing"
    /\ now + Backoff <= Horizon
    /\ now' = now + Backoff
    /\ UNCHANGED <<cfg, monitoring_active, results, alert_history, threads, pc,
                   scan_results, current_time, alerts, filtered, wake, prev,
                   emitted, scans, tasks>>
    /\ UNCHANGED nonMonitor

TimingNext ==
    \/ TimingStart
    \/ FineTick
    \/ \E p \in LoopThreads : LoopTop(p) \/ ScanPublish(p) \/ AlertStep(p) \/ ScanFault(p)

TimingInit ==
    /\ cfgHosts = <<"h1">>
    /\ cfgPorts = <<Port80>>
    /\ maxWorkers = 1
    /\ entry = "timing"
    /\ MonitorInit
    /\ ReportIdle
    /\ ConfigIdle
    /\ PortScanIdle
    /\ AlertIdle
    /\ PingIdle
    /\ ProbeIdle

SpecTiming == TimingInit /\ [][TimingNext]_vars

----------------------------------------------------------------------------
(***************************************************************************)
(* SpecSummary: get_status_summary called by the main thread while the     *)
(* loop thread publishes snapshots, and the statistics functions of        *)
(* PingChecker and PortChecker applied to result maps.                     *)
(***************************************************************************)
\* the port entries of a snapshot, as <<host, port>> pairs
PortEntries(snap) ==
    UNION {{<<h, q>> : q \in DOMAIN snap.hosts[h].ports} : h \in DOMAIN snap.hosts}

\* get_status_summary, the loop over the hosts: "if host_data['ping']['status']"
HostsUp(snap) == Cardinality({h \in DOMAIN snap.hosts : snap.hosts[h].ping.status})

\* the else branch counting only the hosts whose ports were left unprobed
HostsDown_Unprobed(snap) ==
    Cardinality({h \in DOMAIN snap.hosts :
                    ~snap.hosts[h].ping.status /\ DOMAIN snap.hosts[h].ports = {}})

\* get_status_summary, the else branch of the loop over the hosts
HostsDown(snap) == Cardinality({h \in DOMAIN snap.hosts : ~snap.hosts[h].ping.status})

\* get_status_summary, the loop over the ports of each host
ServicesUp(snap) ==
    Cardinality({e \in PortEntries(snap) : snap.hosts[e[1]].ports[e[2]].status})

ServicesDown(snap) ==
    Cardinality({e \in PortEntries(snap) : ~snap.hosts[e[1]].ports[e[2]].status})

\* the summary or statistics call is between its two reads of self.results
Summarising == report.of = "get_status_summary" /\ report.phase = "begun"

\* get_status_summary up to the summary dict: "if not self.results",
\* last_scan = self.results.get("timestamp"),
\* total_hosts = len(self.results.get("hosts", {})) and recent_alerts
SummaryBegin ==
    /\ entry \in {"summary", "retention"}
    /\ ~Summarising
    /\ report' =
          IF results = EmptyResults
          THEN [of |-> "get_status_summary", phase |-> "no_data"]
          ELSE [of |-> "get_status_summary", phase |-> "begun",
                last_scan |-> results.timestamp,
                total_hosts |-> Cardinality(DOMAIN results.hosts),
                hosts_up |-> 0, hosts_down |-> 0,
                total_services |-> 0, services_up |-> 0, services_down |-> 0,
                recent_alerts |-> RecentAlerts(alert_history, now)]
    /\ UNCHANGED mvars
    /\ UNCHANGED nonReport

\* get_status_summary from "for host_data in self.results..." to the return:
\* self.results is read again
SummaryCount ==
    /\ Summarising
    /\ report' = [report EXCEPT
          !.phase = "returned",
          !.hosts_up = HostsUp(results),
          !.hosts_down = HostsDown(results),
          !.total_services = ServicesUp(results) + ServicesDown(results),
          !.services_up = ServicesUp(results),
          !.services_down = ServicesDown(results)]
    /\ UNCHANGED mvars
    /\ UNCHANGED nonReport

\* PingChecker.ping_results after a run: host name -> success
PingResultMaps == UNION {[D -> BOOLEAN] : D \in {{"a"}, {"a", "b"}}}

\* PortChecker.port_results after a run: host name -> port -> success
PortResultMaps == [{"a", "b"} -> UNION {[D -> BOOLEAN] : D \in {{}, {Port80}}}]

\* PingChecker.get_ping_statistics
GetPingStatistics ==
    /\ entry = "summary"
    /\ ~Summarising
    /\ \E ping_results \in PingResultMaps :
          LET total_hosts == Cardinality(DOMAIN ping_results)
              successful_pings ==
                  Cardinality({h \in DOMAIN ping_results : ping_results[h]})
          IN report' = [of |-> "get_ping_statistics", input |-> ping_results,
                        total_hosts |-> total_hosts,
                        successful_pings |-> successful_pings,
                        failed_pings |-> total_hosts - successful_pings]
    /\ UNCHANGED mvars
    /\ UNCHANGED nonReport

\* PortChecker.get_port_statistics
GetPortStatistics ==
    /\ entry = "summary"
    /\ ~Summarising
    /\ \E port_results \in PortResultMaps :
          LET checks == UNION {{<<h, q>> : q \in DOMAIN port_results[h]}
                                 : h \in DOMAIN port_results}
              total_checks == Cardinality(checks)
              successful_checks ==
                  Cardinality({e \in checks : port_results[e[1]][e[2]]})
          IN report' = [of |-> "get_port_statistics", input |-> port_results,
                        total_checks |-> total_checks,
                        successful_checks |-> successful_checks,
                        failed_checks |-> total_checks - successful_checks]
    /\ UNCHANGED mvars
    /\ UNCHANGED nonReport

\* main.py: monitor.start_monitoring(), outside any summary call
SummaryStart ==
    /\ entry = "summary"
    /\ threads = 0
    /\ ~Summarising
    /\ start_monitoring

SummaryNext ==
    \/ SummaryStart
    \/ Tick
    \/ \E p \in LoopThreads : LoopTop(p) \/ ScanPublish(p) \/ AlertStep(p)
    \/ SummaryBegin
    \/ SummaryCount
    \/ GetPingStatistics
    \/ GetPortStatistics

SummaryInit ==
    /\ cfgHosts = <<"127.0.0.1", "h1">>
    /\ cfgPorts = <<Port80>>
    /\ maxWorkers = 1
    /\ entry = "summary"
    /\ MonitorInit
    /\ ReportIdle
    /\ ConfigIdle
    /\ PortScanIdle
    /\ AlertIdle
    /\ PingIdle
    /\ ProbeIdle

SpecSummary == SummaryInit /\ [][SummaryNext]_vars

----------------------------------------------------------------------------
(***************************************************************************)
(* SpecPortScan: PortChecker.scan_host_ports on the asyncio event loop,    *)
(* over a range of more than batch_size ports.  The tasks of a batch are   *)
(* alike, so the model counts them: the tasks begin to run in the order    *)
(* of their creation, ps_started of them so far, and ps_done[b] of the     *)
(* tasks of batch b have finished.                                         *)
(***************************************************************************)
\* range(0, len(tasks), batch_size): the number of batches
NumBatches(n) == (n + BatchSize - 1) \div BatchSize

\* the offsets into the port range of tasks[i:i + batch_size], b-th batch
BatchPorts(n, b) ==
    {k \in 1..n : (b - 1) * BatchSize < k /\ k <= b * BatchSize}

\* the tasks of batch b that have begun to run
StartedIn(b) == Cardinality({k \in BatchPorts(ps_ports, b) : k <= ps_started})

\* scan_host_ports up to the first "await asyncio.gather": a task is created
\* for every port of the range, and none has run yet
PortScanCreate ==
    /\ ps_phase = "call"
    /\ ps_started' = 0
    /\ ps_done' = [b \in 1..NumBatches(ps_ports) |-> 0]
    /\ ps_batch' = 1
    /\ ps_phase' = "gather"
    /\ UNCHANGED <<ps_ports, ps_results>>
    /\ UNCHANGED nonPortScan

\* the event loop runs the next created task for the first time:
\* check_tcp_port opens its socket, hands the connect to the executor and
\* waits for it
PortTaskStart ==
    /\ ps_phase \in {"gather", "sleep"}
    /\ ps_started < ps_ports
    /\ ps_started' = ps_started + 1
    /\ UNCHANGED <<ps_phase, ps_ports, ps_done, ps_batch, ps_results>>
    /\ UNCHANGED nonPortScan

\* a check_port task of batch b finishes, with (True, ms) or (False, None);
\* the loop gets to a finished connect only after it has run every task
\* that was ready, and all were ready since their creation
PortTaskDone(b) ==
    /\ ps_phase \in {"gather", "sleep"}
    /\ ps_started = ps_ports
    /\ ps_done[b] < StartedIn(b)
    /\ ps_done' = [ps_done EXCEPT ![b] = @ + 1]
    /\ UNCHANGED <<ps_phase, ps_ports, ps_started, ps_batch, ps_results>>
    /\ UNCHANGED nonPortScan

\* gather returns when every task of the batch is finished; results[port]
\* is set for every port of the batch; "await asyncio.sleep(0.1)" begins
PortGather ==
    /\ ps_phase = "gather"
    /\ ps_done[ps_batch] = Cardinality(BatchPorts(ps_ports, ps_batch))
    /\ ps_results' = ps_results \cup BatchPorts(ps_ports, ps_batch)
    /\ ps_phase' = "sleep"
    /\ UNCHANGED <<ps_ports, ps_started, ps_done, ps_batch>>
    /\ UNCHANGED nonPortScan

\* the sleep between batches is over: the next batch, or return results
PortSleepDone ==
    /\ ps_phase = "sleep"
    /\ IF ps_batch < NumBatches(ps_ports)
       THEN /\ ps_batch' = ps_batch + 1
            /\ ps_phase' = "gather"
       ELSE /\ ps_phase' = "returned"
            /\ UNCHANGED ps_batch
    /\ UNCHANGED <<ps_ports, ps_started, ps_done, ps_results>>
    /\ UNCHANGED nonPortScan

PortScanNext ==
    \/ PortScanCreate
    \/ PortTaskStart
    \/ \E b \in 1..Len(ps_done) : PortTaskDone(b)
    \/ PortGather
    \/ PortSleepDone

\* scan_host_ports is called once, on a range of more than batch_size
\* ports; the other components are constructed and left alone
PortScanInit ==
    /\ cfgHosts = <<>>
    /\ cfgPorts = <<>>
    /\ maxWorkers = 1
    /\ entry = "none"
    /\ alertsEnabled = FALSE
    /\ MonitorInit
    /\ ReportIdle
    /\ ConfigIdle
    /\ ps_phase = "call"
    /\ ps_ports \in (BatchSize + 1)..(BatchSize + MaxExtraPorts)
    /\ ps_started = 0
    /\ ps_done = <<>>
    /\ ps_batch = 0
    /\ ps_results = {}
    /\ AlertIdle
    /\ PingIdle
    /\ ProbeIdle

SpecPortScan == PortScanInit /\ [][PortScanNext]_vars

----------------------------------------------------------------------------
(***************************************************************************)
(* SpecRestart: a NetworkMonitor that is started, stopped and started      *)
(* again, the calls made at any moments of the loop thread's run.          *)
(***************************************************************************)
\* the first start_monitoring call
RestartStart ==
    /\ entry = "restart"
    /\ threads = 0
    /\ start_monitoring

\* stop_monitoring, once the loop is started
RestartStop ==
    /\ entry = "restart"
    /\ threads = 1
    /\ monitoring_active
    /\ stop_monitoring

\* start_monitoring again, after stop_monitoring
RestartAgain ==
    /\ entry = "restart"
    /\ threads = 1
    /\ ~monitoring_active
    /\ start_monitoring

RestartNext ==
    \/ RestartStart
    \/ RestartStop
    \/ RestartAgain
    \/ Tick
    \/ \E p \in LoopThreads : LoopTop(p) \/ ScanPublish(p) \/ AlertStep(p)

RestartInit ==
    /\ cfgHosts = <<"h1">>
    /\ cfgPorts = <<Port80>>
    /\ maxWorkers = 1
    /\ entry = "restart"
    /\ MonitorInit
    /\ ReportIdle
    /\ ConfigIdle
    /\ PortScanIdle
    /\ AlertIdle
    /\ PingIdle
    /\ ProbeIdle

SpecRestart == RestartInit /\ [][RestartNext]_vars

----------------------------------------------------------------------------
(***************************************************************************)
(* SpecRetention: one loop thread whose cycles lie hours and days apart,   *)
(* and get_status_summary called by the main thread in between.            *)
(***************************************************************************)
\* the instants the clock is read at: around the start, around one hour
\* and around 24 hours after it
ClockTimes ==
    {0, CheckInterval, RecentSeconds, RecentSeconds + CheckInterval,
     RetentionSeconds, RetentionSeconds + CheckInterval}

\* time passes, up to the next instant the clock is read at or beyond it
Elapse ==
    /\ \E t \in ClockTimes :
          /\ t > now
          /\ now' = t
    /\ UNCHANGED <<cfg, monitoring_active, results, alert_history, threads, pc,
                   scan_results, current_time, alerts, filtered, wake, prev,
                   emitted, scans, tasks>>
    /\ UNCHANGED nonMonitor

\* main.py: monitor.start_monitoring(), once
RetentionStart ==
    /\ entry = "retention"
    /\ threads = 0
    /\ ~Summarising
    /\ start_monitoring

RetentionNext ==
    \/ RetentionStart
    \/ Elapse
    \/ \E p \in LoopThreads : LoopTop(p) \/ ScanPublish(p) \/ AlertStep(p)
    \/ SummaryBegin
    \/ SummaryCount

RetentionInit ==
    /\ cfgHosts = <<"h1">>
    /\ cfgPorts = <<Port80>>
    /\ maxWorkers = 1
    /\ entry = "retention"
    /\ MonitorInit
    /\ ReportIdle
    /\ ConfigIdle
    /\ PortScanIdle
    /\ AlertIdle
    /\ PingIdle
    /\ ProbeIdle

SpecRetention == RetentionInit /\ [][RetentionNext]_vars

----------------------------------------------------------------------------
(***************************************************************************)
(* SpecDashboard: dashboard.py's load_monitor_data called again and again  *)
(* on the monitor of one session, minutes, hours and days apart.           *)
(***************************************************************************)
DashboardNext ==
    \/ DashLoad
    \/ DashServe
    \/ DashCatch
    \/ Elapse
    \/ ScanPublish(Caller)
    \/ AlertStep(Caller)
    \/ ScanFault(Caller)

DashboardInit ==
    /\ cfgHosts = <<"h1">>
    /\ cfgPorts = <<Port80>>
    /\ maxWorkers = 1
    /\ entry = "dashboard"
    /\ MonitorInit
    /\ ReportIdle
    /\ ConfigIdle
    /\ PortScanIdle
    /\ AlertIdle
    /\ PingIdle
    /\ ProbeIdle

SpecDashboard == DashboardInit /\ [][DashboardNext]_vars

----------------------------------------------------------------------------
(***************************************************************************)
(* SpecConfig: the functions that read the hosts and ports of the          *)
(* configuration, applied to one hosts list: ping_multiple_hosts,          *)
(* check_all_hosts_ports, get_enabled_hosts, and NetworkMonitor.__init__   *)
(* with load_config followed by the ports argument of a full scan.  A      *)
(* host given as a string is [str |-> address]; a configuration file is a  *)
(* record with the keys it holds.                                          *)
(***************************************************************************)
\* host entries: those of the ping fan-out and one without an enabled flag
ConfigHosts == PingHosts \cup {[name |-> "n", address |-> "a"]}

ConfigLists == UNION {[1..n -> ConfigHosts] : n \in 0..MaxHosts}

\* load_config, default_config["hosts"]
DefaultHosts == <<"127.0.0.1", "8.8.8.8", "1.1.1.1">>

\* list(self.default_ports.keys()); its first two keys stand for the list
DefaultPorts == <<Port80, Port443>>

\* the configuration files with the hosts list, with or without a host
\* given as a string and a host without address, and no file
ConfigFiles(hosts) ==
    LET more == hosts \o <<[str |-> "8.8.8.8"], [name |-> "q"]>>
    IN {[missing |-> TRUE]}
       \cup {[hosts |-> hs] : hs \in {hosts, more}}
       \cup {[hosts |-> hs, ports |-> <<Port80>>] : hs \in {hosts, more}}
       \cup {[ports |-> <<Port80>>], [check_interval |-> CheckInterval]}

\* load_config, "Handle different host formats (string or dict)"
RECURSIVE LoadHosts(_)
LoadHosts(hosts) ==
    IF hosts = <<>> THEN <<>>
    ELSE LET host == Head(hosts)
         IN (IF "str" \in DOMAIN host THEN <<host.str>>
             ELSE IF "address" \in DOMAIN host /\ HostEnabled(host)
                  THEN <<host.address>> ELSE <<>>)
            \o LoadHosts(Tail(hosts))

\* load_config; has_default_ports is hasattr(self, 'default_ports')
LoadConfig(file, has_default_ports) ==
    LET default_ports == IF has_default_ports THEN DefaultPorts ELSE <<>>
    IN IF "missing" \in DOMAIN file
       THEN [hosts |-> DefaultHosts, ports |-> default_ports]
       ELSE [hosts |-> IF "hosts" \in DOMAIN file
                       THEN LoadHosts(file.hosts) ELSE DefaultHosts,
             ports |-> IF "ports" \in DOMAIN file
                       THEN file.ports ELSE default_ports]

\* NetworkMonitor.__init__: self.config = self.load_config(config_file) is
\* its first statement, self.default_ports is assigned after it
MonitorConstruct ==
    /\ ~cf_config.called
    /\ \E file \in ConfigFiles(pg_hosts) :
          cf_config' = [called |-> TRUE, file |-> file,
                        config |-> LoadConfig(file, FALSE)]
    /\ UNCHANGED <<cf_enabled, cf_checked, cf_probed>>
    /\ UNCHANGED nonConfig
    /\ UNCHANGED pvars

\* perform_full_scan: the ports handed to scan_host_ports,
\* self.config.get("ports", list(self.default_ports.keys())); a reachable
\* host gets one entry for each of them
FullScanPorts ==
    /\ cf_config.called
    /\ ~cf_probed.called
    /\ cf_probed' = [called |-> TRUE,
                     ports |-> IF "ports" \in DOMAIN cf_config.config
                               THEN cf_config.config.ports ELSE DefaultPorts]
    /\ UNCHANGED <<cf_enabled, cf_checked, cf_config>>
    /\ UNCHANGED nonConfig
    /\ UNCHANGED pvars

\* ConfigManager.get_enabled_hosts
GetEnabledHosts ==
    /\ ~cf_enabled.called
    /\ cf_enabled' = [called |-> TRUE, hosts |-> EnabledHosts(pg_hosts)]
    /\ UNCHANGED <<cf_checked, cf_config, cf_probed>>
    /\ UNCHANGED nonConfig
    /\ UNCHANGED pvars

\* PortChecker.check_all_hosts_ports: check_multiple_ports is awaited for
\* the address of every enabled host, and all_results gets the host's name
CheckAllHostsPorts ==
    /\ ~cf_checked.called
    /\ cf_checked' =
          [called |-> TRUE,
           probed |-> [i \in 1..Len(EnabledHosts(pg_hosts)) |->
                          EnabledHosts(pg_hosts)[i].address],
           keys |-> {EnabledHosts(pg_hosts)[i].name :
                        i \in 1..Len(EnabledHosts(pg_hosts))}]
    /\ UNCHANGED <<cf_enabled, cf_config, cf_probed>>
    /\ UNCHANGED nonConfig
    /\ UNCHANGED pvars

ConfigNext ==
    \/ PingMultipleHosts
    \/ PingAnswered
    \/ PingUnanswered
    \/ \E i \in 1..Len(pg_tasks) : SubprocessPingDone(i)
    \/ PingGather
    \/ GetEnabledHosts
    \/ CheckAllHostsPorts
    \/ MonitorConstruct
    \/ FullScanPorts

ConfigInit ==
    /\ cfgHosts = <<>>
    /\ cfgPorts = <<>>
    /\ maxWorkers = 1
    /\ entry = "none"
    /\ alertsEnabled = FALSE
    /\ MonitorInit
    /\ ReportIdle
    /\ cf_enabled = NotCalled
    /\ cf_checked = NotCalled
    /\ cf_config = NotCalled
    /\ cf_probed = NotCalled
    /\ PortScanIdle
    /\ AlertIdle
    /\ pg_hosts \in ConfigLists
    /\ pg_phase = "call"
    /\ pg_now = 0
    /\ pg_start = None
    /\ pg_tasks = <<>>
    /\ pg_ready = <<>>
    /\ pg_results = EmptyMap
    /\ ProbeIdle

SpecConfig == ConfigInit /\ [][ConfigNext]_vars

----------------------------------------------------------------------------
(***************************************************************************)
(* Properties of the cycle's alert step.                                   *)
(***************************************************************************)
\* the targets of a snapshot: <<host, NoPort>> for the ping of a host,
\* <<host, port>> for a service
Targets(snap) ==
    {<<h, NoPort>> : h \in DOMAIN snap.hosts}
    \cup UNION {{<<h, q>> : q \in DOMAIN snap.hosts[h].ports} : h \in DOMAIN snap.hosts}

HasResult(snap, tg) == tg \in Targets(snap)

StatusOf(snap, tg) ==
    IF tg[2] = NoPort THEN snap.hosts[tg[1]].ping.status
    ELSE snap.hosts[tg[1]].ports[tg[2]].status

\* the events the thread's check_alerts has raised for a target
EventsFor(p, tg) ==
    {i \in 1..Len(emitted[p]) : emitted[p][i].host = tg[1] /\ emitted[p][i].port = tg[2]}

\* the new status an alert reports: the down kinds report down
NewStatus(a) == a.type \notin {"ping_down", "port_down"}

\* check_alerts has processed every alert of its list
AlertsDone(p) == pc[p] \in {"prune", "assign"}

\* C1: a target with no result in the previous snapshot gets no event from
\* the cycle's alert step, whether it is observed up or down.
C1_NoEventOnFirstObservation ==
    \A p \in Procs : AlertsDone(p) =>
        \A tg \in Targets(scan_results[p]) :
            ~HasResult(prev[p], tg) => EventsFor(p, tg) = {}

\* C2: a target with the same status in the previous and in the current
\* snapshot gets no event from the cycle's alert step.
C2_NoEventOnUnchangedStatus ==
    \A p \in Procs : AlertsDone(p) =>
        \A tg \in Targets(scan_results[p]) :
            (HasResult(prev[p], tg) /\ StatusOf(prev[p], tg) = StatusOf(scan_results[p], tg))
                => EventsFor(p, tg) = {}

\* C3: a target whose status flipped between the previous and the current
\* snapshot gets exactly one event, and the event reports the new status
\* (down for up->down, up for down->up).
C3_OneEventPerFlip ==
    \A p \in Procs : AlertsDone(p) =>
        \A tg \in Targets(scan_results[p]) :
            (HasResult(prev[p], tg) /\ StatusOf(prev[p], tg) # StatusOf(scan_results[p], tg))
                => /\ Cardinality(EventsFor(p, tg)) = 1
                   /\ \A i \in EventsFor(p, tg) :
                          NewStatus(emitted[p][i]) = StatusOf(scan_results[p], tg)

\* the loop threads that exist and have not exited
LiveLoops == {p \in LoopThreads : pc[p] \notin {"unborn", "exited"}}

\* C9: after any sequence of start_monitoring and stop_monitoring calls at
\* most one monitoring loop thread exists.
C9_AtMostOneLoopThread == Cardinality(LiveLoops) <= 1

\* the thread is inside a cycle: probing, alert processing, or the sleep
\* that ends the cycle
InCycle(p) ==
    \/ pc[p] \in {"probe", "alerts", "process", "prune", "assign"}
    \/ pc[p] = "top" /\ wake[p] # NoTime /\ now < wake[p]

\* C10: under the entry points' call sequences no two scan cycles of the
\* monitor are in progress at the same time (a cycle lasts until its sleep
\* is over).
C10_CyclesSerialized ==
    \A p \in Procs : \A q \in Procs : (p # q) => ~(InCycle(p) /\ InCycle(q))

\* the loop thread is in a cycle that follows the caller's initial scan
C10_Witness ==
    /\ entry = "monitor"
    /\ \E p \in LoopThreads : pc[p] = "process" /\ prev[p] # EmptyResults

----------------------------------------------------------------------------
(***************************************************************************)
(* Properties of the alert gate.                                           *)
(***************************************************************************)
\* the step is a send_alert call
IsCall == as_calls' # as_calls

\* the call of this step was suppressed: nothing recorded, nothing delivered
Suppressed ==
    /\ ~as_last'.admitted
    /\ as_last'.out = {}
    /\ as_history' = as_history

\* the call of this step was admitted: recorded and handed to every channel
Admitted ==
    /\ as_last'.admitted
    /\ as_last'.out = as_config
    /\ AlertKey(as_last'.call) \in DOMAIN as_history'
    /\ as_history'[AlertKey(as_last'.call)] = as_now

\* C4: of two successive send_alert calls with the same (kind, target), the
\* first admitted, the second is suppressed when made less than 300 s after
\* the first and admitted when made more than 300 s after it; a call whose
\* key was never recorded is admitted.
C4_CooldownSuppression ==
    [][IsCall =>
        /\ (AlertKey(as_last'.call) \notin DOMAIN as_history) => Admitted
        /\ (as_last.admitted /\ as_last'.call = as_last.call) =>
              /\ (as_now - as_last.at < CooldownPeriod) => Suppressed
              /\ (as_now - as_last.at > CooldownPeriod) => Admitted]_vars

\* both cases of C4 have happened: a repeat inside the window was
\* suppressed after a repeat outside the window was admitted
C4_Witness ==
    /\ ~as_last.admitted
    /\ as_last.call \in as_admitted
    /\ as_last.at > CooldownPeriod
    /\ as_history[AlertKey(as_last.call)] > CooldownPeriod
    /\ as_last.at - as_history[AlertKey(as_last.call)] = CooldownPeriod - 1

\* C5: a call whose (kind, target) pair differs from every pair admitted so
\* far is admitted.
C5_FirstOccurrenceAdmitted ==
    [][(IsCall /\ as_last'.call \notin as_admitted) => as_last'.admitted]_vars

----------------------------------------------------------------------------
(***************************************************************************)
(* Properties of one scan cycle.                                           *)
(***************************************************************************)
RECURSIVE RunningPorts(_)
RunningPorts(n) ==
    IF n = 0 THEN 0 ELSE Cardinality(tasks[n].running) + RunningPorts(n - 1)

\* the probes in flight: the pings and the port checks of all hosts
InFlight ==
    Cardinality({i \in HostIndices : tasks[i].phase = "ping"})
        + RunningPorts(Len(cfgHosts))

\* C6: in a cycle over N hosts with max_workers = K < N, never more than K
\* probes (pings plus port checks, over all hosts) are in flight at once.
C6_ConcurrencyCeiling ==
    (pc[Caller] = "probe" /\ maxWorkers < Len(cfgHosts)) => InFlight <= maxWorkers

\* a snapshot with an entry for every distinct configured host
Complete(snap) == DOMAIN snap.hosts = SeqToSet(cfgHosts)

\* C8: self.results is assigned only when every probe task of the cycle is
\* finished and stored, and is assigned the cycle's whole snapshot; at any
\* time it is the empty initial value or a snapshot with an entry for every
\* distinct configured host; while check_alerts of a cycle runs, self.results
\* is already that cycle's snapshot.
C8_NoPartialSnapshots ==
    /\ [](results = EmptyResults \/ Complete(results))
    /\ [](pc[Caller] \in {"alerts", "process", "prune", "assign"}
            => results = scan_results[Caller])
    /\ [][results' # results =>
            /\ \A i \in HostIndices : tasks[i].phase = "stored"
            /\ results' = scan_results[Caller]
            /\ Complete(results')
            /\ pc[Caller] = "probe" /\ pc'[Caller] = "alerts"]_vars

\* a second cycle has just published its snapshot over the first one's
C8_Witness ==
    /\ entry = "scan"
    /\ pc[Caller] = "alerts"
    /\ prev[Caller] # EmptyResults
    /\ results # prev[Caller]
    /\ \A i \in HostIndices : tasks[i].phase = "stored"

----------------------------------------------------------------------------
(***************************************************************************)
(* Properties of the ping fan-out.                                         *)
(***************************************************************************)
\* C7: every target of a fan-out is finished within the timeout of the
\* moment the probes were issued, the target that never answers as a
\* failure and every other target as a success.
C7_SlowTargetIsolation ==
    \A i \in 1..Len(pg_tasks) :
        pg_tasks[i].state = "done" =>
            /\ pg_tasks[i].done_at - pg_start <= PingTimeout
            /\ pg_tasks[i].success = (pg_tasks[i].address \notin Hanging)

----------------------------------------------------------------------------
(***************************************************************************)
(* Properties of the monitoring loop.                                      *)
(***************************************************************************)
\* the loop threads that were started
Started == 1..threads

FaultStep(p) == pc[p] \in {"probe", "process"} /\ pc'[p] = "top"

\* C12: a loop thread whose cycle raises stays in the loop and sleeps the
\* 10 s backoff, not check_interval; a thread inside a cycle never leaves the
\* loop, a thread leaves the loop only when the flag is cleared, and with the
\* flag set the thread's next step after its sleep is the next cycle, which
\* does not begin before the sleep is over.
C12_FaultAbsorption ==
    [][\A p \in LoopThreads :
        /\ FaultStep(p) => wake'[p] = now + Backoff
        /\ pc[p] \in {"probe", "alerts", "process", "prune", "assign"}
              => pc'[p] \in {"probe", "alerts", "process", "prune", "assign", "top"}
        /\ (pc[p] = "top" /\ pc'[p] = "exited") => ~monitoring_active
        /\ (pc[p] = "top" /\ pc'[p] # "top" /\ monitoring_active)
              => (pc'[p] = "probe" /\ now >= wake[p])]_vars

\* the first cycle of a loop thread began at 0 and faulted at once, and the
\* thread's second cycle has begun 10 s later
C12_Witness ==
    /\ entry = "timing"
    /\ monitoring_active
    /\ scans = 2
    /\ \E p \in Started : pc[p] = "probe" /\ scan_results[p].timestamp = Backoff

\* the step ends the thread's cycle without an exception
ReturnStep(p) == pc[p] \in {"alerts", "assign"} /\ pc'[p] = "top"

\* C13: after a cycle that did not fault the loop thread sleeps until
\* check_interval after the cycle's start (the snapshot's timestamp), however
\* long the cycle took.
C13_FixedInterval ==
    [][\A p \in LoopThreads :
        ReturnStep(p) => wake'[p] = scan_results[p].timestamp + CheckInterval]_vars

----------------------------------------------------------------------------
(***************************************************************************)
(* Properties of the probes.                                               *)
(***************************************************************************)
\* C14: whatever the network does to a target, its probe returns, and it
\* returns a failure unless the target answered; the probes of the other
\* targets of the fan-out return all the same.
C14_ProbeFailureIsData ==
    \A i \in 1..Len(pr_res) :
        /\ ENABLED ProbeReturns(i) \/ pr_res[i].done
        /\ (pr_res[i].done /\ pr_env[i] # "answered") => ~pr_res[i].success

----------------------------------------------------------------------------
(***************************************************************************)
(* Properties of a cycle's outcome.                                        *)
(***************************************************************************)
\* C15: perform_full_scan over an empty hosts list does not raise.
C15_EmptyListIsNoOp ==
    cfgHosts = <<>> => pc[Caller] # "raised"

\* two entries of the list are the same target
HasDuplicates(list) ==
    \E i \in 1..Len(list) : \E j \in 1..Len(list) : i # j /\ list[i] = list[j]

\* C16: a cycle over a hosts list that names a host twice signals an error:
\* it publishes no snapshot.
C16_DuplicatesRejected ==
    HasDuplicates(cfgHosts) => results = EmptyResults

\* a probe result with a response time exactly when it is a success
LatencyIffSuccess(r) == r.status = (r.response_time # None)

\* C17: in every published snapshot a failed ping or port check has no
\* response time (absent, not a number) and a successful one has one.
C17_FailedProbesCarryNoLatency ==
    \A h \in DOMAIN results.hosts :
        /\ LatencyIffSuccess(results.hosts[h].ping)
        /\ \A q \in DOMAIN results.hosts[h].ports :
              LatencyIffSuccess(results.hosts[h].ports[q])

\* C18: when the caller's cycle raises, self.results and self.alert_history
\* are what they were when the cycle began: a cycle that raises while it
\* processes its alerts has not replaced the snapshot it found (prev) and has
\* appended no alert (emitted).
C18_FaultingCycleLeavesNoTrace ==
    [][(pc[Caller] = "process" /\ pc'[Caller] = "raised")
          => (results' = prev[Caller] /\ emitted[Caller] = <<>>)]_vars

\* C19: a published snapshot is never replaced by one with an earlier
\* timestamp.
C19_MonotonicTimestamps ==
    [][(results # EmptyResults /\ results' # results)
          => results'.timestamp >= results.timestamp]_vars

----------------------------------------------------------------------------
(***************************************************************************)
(* The end-to-end scenario: host A is the first configured host, host B    *)
(* the second.                                                             *)
(***************************************************************************)
\* the snapshot has A with the status a and B with the status b, and every
\* port that was probed is open
ScenarioSnapshot(snap, a, b) ==
    /\ Len(cfgHosts) = 2 /\ cfgHosts[1] # cfgHosts[2]
    /\ DOMAIN snap.hosts = SeqToSet(cfgHosts)
    /\ snap.hosts[cfgHosts[1]].ping.status = a
    /\ snap.hosts[cfgHosts[2]].ping.status = b
    /\ \A h \in DOMAIN snap.hosts : \A q \in DOMAIN snap.hosts[h].ports :
          snap.hosts[h].ports[q].status

\* C20: in the scenario's first cycle (A up, B down, nothing observed
\* before) the alert step raises no event, and in its second cycle (B now
\* up) the alert step raises exactly one event, for B, reporting up.
C20_EndToEndScenario ==
    AlertsDone(Caller) =>
        /\ (prev[Caller] = EmptyResults /\ ScenarioSnapshot(scan_results[Caller], TRUE, FALSE))
              => emitted[Caller] = <<>>
        /\ (ScenarioSnapshot(prev[Caller], TRUE, FALSE)
                /\ ScenarioSnapshot(scan_results[Caller], TRUE, TRUE))
              => /\ Len(emitted[Caller]) = 1
                 /\ emitted[Caller][1].host = cfgHosts[2]
                 /\ NewStatus(emitted[Caller][1])


----------------------------------------------------------------------------
(***************************************************************************)
(* The alert gate's record and window.                                     *)
(***************************************************************************)
\* C21: an admitted call records the observation time of the event it was
\* given as the last-emitted time of its key, for service_up as for
\* service_down.
C21_AdmitRecordsObservedAt ==
    [][(IsCall /\ as_last'.admitted) =>
          as_history'[AlertKey(as_last'.call)] = as_last'.observed]_vars

\* the key of the call of this step was last admitted less than 300 s ago
AdmittedWithinWindow ==
    /\ AlertKey(as_last'.call) \in DOMAIN as_history
    /\ as_now - as_history[AlertKey(as_last'.call)] < CooldownPeriod

\* C27: a send_alert call is suppressed exactly when an alert with the same
\* key was admitted less than 300 s before it; a suppressed call leaves
\* alert_history as it was and reaches no channel, so the window runs from
\* the last admitted alert, and every other call, one made exactly 300 s
\* after the admitted alert included, is admitted.
C27_SuppressedIffWithinWindow ==
    [][IsCall =>
        /\ AdmittedWithinWindow <=> Suppressed
        /\ ~AdmittedWithinWindow <=> Admitted
        /\ (as_last'.call \in as_admitted /\ ~AdmittedWithinWindow
               /\ as_now - as_history[AlertKey(as_last'.call)] = CooldownPeriod)
              => Admitted]_vars

\* the same call was made twice, exactly 300 s apart, and admitted both
\* times: the first of two calls is always admitted, and two admitted calls
\* that leave one element in the admitted set are the same call
C27_Witness ==
    /\ as_calls = 2
    /\ as_ticks = 1
    /\ Cardinality(as_admitted) = 1
    /\ as_last.admitted
    /\ as_last.at = CooldownPeriod
    /\ as_history[AlertKey(as_last.call)] = CooldownPeriod


----------------------------------------------------------------------------
(***************************************************************************)
(* The stop request and the scheduler's wait.                              *)
(***************************************************************************)
\* C22: a stop_monitoring() call made while a loop thread is in its wait
\* takes the thread out of the wait, so that it does not wait out the rest
\* of the interval; a call made while a thread is inside a cycle leaves the
\* thread where it is.
C22_StopEndsTheWait ==
    [][(monitoring_active /\ ~monitoring_active') =>
          \A p \in LoopThreads :
             /\ Sleeping(p) => ~Sleeping(p)'
             /\ pc'[p] = pc[p]]_vars


----------------------------------------------------------------------------
(***************************************************************************)
(* Targets that leave the snapshot.                                        *)
(***************************************************************************)
\* the targets with a result in the previous snapshot and none in the
\* current one
Disappeared(p) == Targets(prev[p]) \ Targets(scan_results[p])

\* C23: a target that has a result in the previous snapshot and none in the
\* current snapshot gets no event from the cycle's alert step.
C23_DisappearanceIsNoTransition ==
    \A p \in Procs : AlertsDone(p) =>
        \A tg \in Disappeared(p) : EventsFor(p, tg) = {}

\* a service was probed in the previous cycle and not in this one, whose
\* alert step has raised an alert for the host alone
C23_Witness ==
    /\ AlertsDone(Caller)
    /\ \E tg \in Disappeared(Caller) :
          /\ tg[2] # NoPort
          /\ EventsFor(Caller, <<tg[1], NoPort>>) # {}


----------------------------------------------------------------------------
(***************************************************************************)
(* The UDP probe.                                                          *)
(***************************************************************************)
\* the datagram of the i-th probe was sent and recv did not raise
SentAndQuiet(i) ==
    /\ UdpSend(pr_env[i]) = {"sent"}
    /\ UdpRecv(pr_env[i]) \in {"reply", "silence"}

\* C25: check_udp_port returns success, with a response time, whenever the
\* datagram was sent and either a reply came or the wait for one timed out;
\* it returns failure, without a response time, only when sending failed or
\* another exception was raised.
C25_UdpSentIsSuccess ==
    pr_kind = "udp_port" =>
        \A i \in 1..Len(pr_res) : pr_res[i].done =>
            /\ SentAndQuiet(i) =>
                  pr_res[i].success /\ pr_res[i].response_time # None
            /\ ~SentAndQuiet(i) =>
                  ~pr_res[i].success /\ pr_res[i].response_time = None

\* one UDP probe got no reply and returned success, another could not send
\* and returned failure
C25_Witness ==
    /\ pr_kind = "udp_port"
    /\ \E i, j \in 1..Len(pr_res) :
          /\ pr_res[i].done /\ pr_env[i] = "timeout" /\ pr_res[i].success
          /\ pr_res[j].done /\ pr_env[j] = "dns_failure" /\ ~pr_res[j].success


----------------------------------------------------------------------------
(***************************************************************************)
(* The counters of the summaries.                                          *)
(***************************************************************************)
\* what a returned summary or statistics dict has to satisfy, snap being
\* the published snapshot at the return
Consistent(rep, snap) ==
    CASE rep.of = "get_status_summary" /\ rep.phase = "returned" ->
            /\ rep.hosts_up + rep.hosts_down = rep.total_hosts
            /\ rep.total_hosts = Cardinality(DOMAIN snap.hosts)
            /\ rep.services_up + rep.services_down = rep.total_services
            /\ rep.total_services = Cardinality(PortEntries(snap))
      [] rep.of = "get_ping_statistics" ->
            /\ rep.successful_pings + rep.failed_pings = rep.total_hosts
            /\ rep.total_hosts = Cardinality(DOMAIN rep.input)
      [] rep.of = "get_port_statistics" ->
            rep.successful_checks + rep.failed_checks = rep.total_checks
      [] OTHER -> TRUE

\* C24: the summary get_status_summary returns has hosts_up + hosts_down =
\* total_hosts = the number of hosts of the published snapshot, and
\* services_up + services_down = total_services = the number of its port
\* entries; get_ping_statistics has successful_pings + failed_pings =
\* total_hosts and get_port_statistics has successful_checks +
\* failed_checks = total_checks.
C24_CountersConsistent ==
    [][report' # report => Consistent(report', results')]_vars

\* a summary was returned whose first read of self.results saw one snapshot
\* and whose loop saw the next one, with another number of port entries and
\* a host that is down
C24_Witness ==
    /\ report.of = "get_status_summary"
    /\ report.phase = "returned"
    /\ report.hosts_down > 0
    /\ report.last_scan = prev[1].timestamp
    /\ report.last_scan # results.timestamp
    /\ report.total_services = Cardinality(PortEntries(results))
    /\ report.total_services # Cardinality(PortEntries(prev[1]))


----------------------------------------------------------------------------
(***************************************************************************)
(* The fan-out's results and the tasks they come from.                     *)
(***************************************************************************)
\* C26: once ping_multiple_hosts has returned, the result stored under a
\* key is the outcome of the task that was launched for that key's target
\* (the task host_info holds for it), for every hosts list, with hosts of
\* the same name and with disabled hosts.
C26_ResultOfOwnTask ==
    pg_phase = "done" =>
        \A name \in DOMAIN pg_results :
            LET own == pg_tasks[InfoTask(EnabledHosts(pg_hosts), name)]
            IN /\ pg_results[name].success = own.success
               /\ pg_results[name].response_time = own.response_time


----------------------------------------------------------------------------
(***************************************************************************)
(* Port probing and reachability.                                          *)
(***************************************************************************)
\* the ping of a host result succeeded or the host is the local one
Reachable(host, hr) == hr.ping.status \/ host \in LocalHosts

\* C28: a host whose ping failed and which is not "127.0.0.1" or
\* "localhost" gets no port probe, its ports map stays empty and the
\* cycle's alert step raises exactly one ping_down alert and no port_down
\* alert for it; a host whose ping succeeded, or the local host, gets
\* exactly one ports entry for every configured port.
C28_PortsGatedOnReachability ==
    /\ \A i \in HostIndices :
          /\ (tasks[i].running # {} \/ DOMAIN tasks[i].ports # {}) =>
                 Reachable(cfgHosts[i], tasks[i])
          /\ tasks[i].phase \in {"returned", "stored"} =>
                 DOMAIN tasks[i].ports =
                    IF Reachable(cfgHosts[i], tasks[i]) THEN SeqToSet(cfgPorts) ELSE {}
    /\ \A h \in DOMAIN results.hosts :
          DOMAIN results.hosts[h].ports =
             IF Reachable(h, results.hosts[h]) THEN SeqToSet(cfgPorts) ELSE {}
    /\ AlertsDone(Caller) =>
          \A h \in DOMAIN scan_results[Caller].hosts :
             ~Reachable(h, scan_results[Caller].hosts[h]) =>
                /\ Cardinality(EventsFor(Caller, <<h, NoPort>>)) = 1
                /\ \A q \in SeqToSet(cfgPorts) : EventsFor(Caller, <<h, q>>) = {}

\* a cycle in which neither host answered the ping: the local host has its
\* port entry, the other host has none and one alert
C28_Witness ==
    /\ AlertsDone(Caller)
    /\ DOMAIN results.hosts = {"127.0.0.1", "h1"}
    /\ ~results.hosts["127.0.0.1"].ping.status
    /\ ~results.hosts["h1"].ping.status
    /\ DOMAIN results.hosts["127.0.0.1"].ports = {Port80}
    /\ DOMAIN results.hosts["h1"].ports = {}
    /\ Cardinality(EventsFor(Caller, <<"h1", NoPort>>)) = 1


----------------------------------------------------------------------------
(***************************************************************************)
(* The batched port scan.                                                  *)
(***************************************************************************)
RECURSIVE SumTo(_, _)
SumTo(f, n) == IF n = 0 THEN 0 ELSE f[n] + SumTo(f, n - 1)

\* the probes that have begun and not finished
ProbesInFlight == ps_started - SumTo(ps_done, Len(ps_done))

\* C29: during a scan of more than 50 ports at most batch_size = 50 probes
\* are in flight at any moment, no probe of a batch begins before the batch
\* before it is complete, and the map returned has exactly one entry for
\* every port of the range.
C29_BatchedPortScan ==
    /\ ProbesInFlight <= BatchSize
    /\ \A b \in 1..Len(ps_done) :
          (b > 1 /\ StartedIn(b) > 0) =>
              ps_done[b - 1] = Cardinality(BatchPorts(ps_ports, b - 1))
    /\ ps_phase = "returned" => ps_results = 1..ps_ports


----------------------------------------------------------------------------
(***************************************************************************)
(* Stop followed by start.                                                 *)
(***************************************************************************)
\* C30: the loop thread that was running when stop_monitoring() was called
\* begins no further cycle, also when start_monitoring() has been called
\* again before the thread reads the flag: once the second loop thread
\* exists, the first one leaves the top of its loop only to exit.
C30_StoppedLoopStaysStopped ==
    [][\A p \in LoopThreads :
          (p < threads /\ pc[p] = "top" /\ pc'[p] # "top") => pc'[p] = "exited"]_vars


----------------------------------------------------------------------------
(***************************************************************************)
(* Disabled hosts and default ports.                                       *)
(***************************************************************************)
\* the host entry has an enabled flag and it is false
IsDisabled(host) == "enabled" \in DOMAIN host /\ host.enabled = FALSE

NotDisabled(host) == ~IsDisabled(host)

\* load_config takes the entry: a string, or a dict with an address that
\* is not disabled
Loadable(host) ==
    "str" \in DOMAIN host \/ ("address" \in DOMAIN host /\ ~IsDisabled(host))

AddressOf(host) == IF "str" \in DOMAIN host THEN host.str ELSE host.address

Addresses(hosts) == [i \in 1..Len(hosts) |-> AddressOf(hosts[i])]

Names(hosts) == {hosts[i].name : i \in 1..Len(hosts)}

\* C31: a host whose enabled flag is false is not probed and has no entry
\* of its own in the results of ping_multiple_hosts and of
\* check_all_hosts_ports, in get_enabled_hosts or in the hosts list
\* NetworkMonitor loads, and a host without the flag is treated as enabled:
\* what each function probes and returns is the hosts list without its
\* disabled entries.
C31_DisabledNeverProbed ==
    /\ pg_phase \in {"gather", "done"} =>
          [i \in 1..Len(pg_tasks) |-> pg_tasks[i].address]
             = Addresses(SelectSeq(pg_hosts, NotDisabled))
    /\ pg_phase = "done" =>
          DOMAIN pg_results = Names(SelectSeq(pg_hosts, NotDisabled))
    /\ cf_checked.called =>
          /\ cf_checked.probed = Addresses(SelectSeq(pg_hosts, NotDisabled))
          /\ cf_checked.keys = Names(SelectSeq(pg_hosts, NotDisabled))
    /\ cf_enabled.called =>
          cf_enabled.hosts = SelectSeq(pg_hosts, NotDisabled)
    /\ (cf_config.called /\ "hosts" \in DOMAIN cf_config.file) =>
          cf_config.config.hosts = Addresses(SelectSeq(cf_config.file.hosts, Loadable))

\* every function has run on a list of a disabled host and a host without
\* the flag, and the latter has its entry in the ping results
C31_Witness ==
    /\ pg_hosts = <<[name |-> "d", address |-> "a", enabled |-> FALSE],
                    [name |-> "n", address |-> "a"]>>
    /\ pg_phase = "done"
    /\ DOMAIN pg_results = {"n"}
    /\ cf_checked.called
    /\ cf_enabled.called
    /\ cf_config.called
    /\ "hosts" \in DOMAIN cf_config.file
    /\ cf_config.config.hosts = <<"a">>

\* C35: when the configuration file is missing or has no "ports" entry, a
\* full scan probes the keys of default_ports on a reachable host.
C35_DefaultPortsApply ==
    (cf_probed.called /\ "ports" \notin DOMAIN cf_config.file) =>
        cf_probed.ports = DefaultPorts


----------------------------------------------------------------------------
(***************************************************************************)
(* The alert history.                                                      *)
(***************************************************************************)
\* thread p's run of check_alerts with alerts enabled ends with this step
RunEnds(p) == pc[p] = "assign" /\ pc'[p] # "assign"

\* a summary dict is built in this step
SummaryBuilt ==
    /\ report' # report
    /\ report'.of = "get_status_summary"
    /\ report'.phase = "begun"

InHistory(alert, hist) == \E i \in 1..Len(hist) : hist[i] = alert

\* C32: when a run of check_alerts with alerts enabled ends, in a monitor
\* whose cycles follow one another, alert_history holds every alert the run
\* raised and no alert whose timestamp is more than 24 hours before the
\* run's time; and recent_alerts of get_status_summary is the number of
\* alert_history entries less than one hour old.
C32_HistoryRetention ==
    [][/\ \A p \in LoopThreads :
            RunEnds(p) =>
               /\ \A i \in 1..Len(emitted[p]) :
                      InHistory(emitted[p][i], alert_history')
               /\ \A i \in 1..Len(alert_history') :
                      current_time[p] - alert_history'[i].timestamp
                         <= RetentionSeconds
       /\ SummaryBuilt =>
            report'.recent_alerts
               = Cardinality({i \in 1..Len(alert_history) :
                                 now - alert_history[i].timestamp < RecentSeconds})
      ]_vars

\* a summary taken in the first minute counted the alert of the first
\* cycle, and the second cycle, more than a day later, has ended with its
\* own alert alone in the history
C32_Witness ==
    /\ entry = "retention"
    /\ report.of = "get_status_summary"
    /\ report.phase = "returned"
    /\ report.last_scan = 0
    /\ report.recent_alerts = 1
    /\ scans = 2
    /\ \A p \in LoopThreads : pc[p] \in {"top", "unborn"}
    /\ Len(alert_history) = 1
    /\ alert_history[1].timestamp = RetentionSeconds + CheckInterval


\* thread p is inside check_alerts, past the building of its alerts list
InCheckAlerts(p) == pc[p] \in {"process", "prune", "assign"}

\* C33: when runs of check_alerts overlap on one monitor and the last of
\* them ends, every alert it raised, all of them younger than 24 hours, is
\* present in alert_history.
C33_NoLostAlerts ==
    [][\A p \in Procs :
          (RunEnds(p) /\ \A q \in Procs \ {p} : ~InCheckAlerts(q)) =>
             \A i \in 1..Len(emitted[p]) :
                InHistory(emitted[p][i], alert_history')
      ]_vars


\* thread p's call of check_alerts leaves its first statements in this step
CheckAlertsEntered(p) == pc[p] = "alerts" /\ pc'[p] # "alerts"

\* C34: when alerts.enabled is false, check_alerts returns at once for
\* every snapshot: it goes on to no alert, processes and prints none, and
\* leaves alert_history as it was.
C34_DisabledNoEffect ==
    [][\A p \in Procs :
          (CheckAlertsEntered(p) /\ ~alertsEnabled) =>
             /\ alert_history' = alert_history
             /\ emitted' = emitted
             /\ alerts'[p] = <<>>
             /\ pc'[p] \notin {"process", "prune", "assign"}
      ]_vars

\* with alerts disabled, a cycle whose snapshot has the host down is over
\* and the loop thread sleeps
C34_Witness ==
    /\ entry = "retention"
    /\ ~alertsEnabled
    /\ scans = 1
    /\ results # EmptyResults
    /\ ~results.hosts["h1"].ping.status
    /\ pc[1] = "top"
    /\ wake[1] = results.timestamp + CheckInterval
    /\ alert_history = <<>>


----------------------------------------------------------------------------
(***************************************************************************)
(* Sockets of the port probes.                                             *)
(***************************************************************************)
PortProbes == {"monitor_port", "tcp_port", "udp_port"}

\* C36: every socket a port probe opened is closed when the probe has
\* returned, whatever the network did to the target, so that no probe
\* socket is open when no probe is in flight.
C36_NoSocketLeak ==
    pr_kind \in PortProbes =>
        \A i \in 1..Len(pr_res) : pr_res[i].done => ~pr_res[i].open


----------------------------------------------------------------------------
(***************************************************************************)
(* The dashboard's snapshot.                                               *)
(***************************************************************************)
\* C37: load_monitor_data rescans whenever the snapshot's timestamp is
\* more than 60 seconds in the past, whatever the age, a day or more
\* included: a snapshot it returns without a scan is at most 60 seconds old.
C37_NeverServesStale ==
    report.of = "load_monitor_data" =>
        report.at - report.snapshot <= StaleAfter

====
